---------------------------- MODULE Spec2Model ----------------------------
(***************************************************************************)
(* A model of brutespray's lazy credential iterator                         *)
(* (modules/credential_iterator.go), of the counting pass                   *)
(* (modules/calc.go, CountCredentials) and of the chunked file and its      *)
(* iterator (modules/file_chunker.go).  SharedSpec runs one chunked file   *)
(* among goroutines, statement by statement; EagerSpec runs the goroutines *)
(* and channels of GetUsersAndPasswords (modules/calc.go).                 *)
(*                                                                         *)
(* A string is a sequence of one-character strings, so that the split at   *)
(* the first colon is computed and not assumed.  A file is the sequence of *)
(* its lines.  The operating system is the record sys: how many handles of *)
(* each source are open, and what went wrong so far.                       *)
(***************************************************************************)
EXTENDS Integers, Sequences, FiniteSets, TLC

VARIABLES cfg, ci, sys, out, lastOp, ret,
          DisableFileChunking, first, cf, fs, it, cres, eager, conc

\* The credential iterator, its configuration and its caller.
iterVars == <<cfg, ci, sys, out, lastOp, ret>>

\* The chunked file, the files on disk, the chunk iterator and the result of
\* the last call on them.
chunkVars == <<cf, fs, it, cres>>

\* The goroutines of GetUsersAndPasswords, and the goroutines that share one
\* chunked file.
concVars == <<eager, conc>>

vars ==
  <<cfg, ci, sys, out, lastOp, ret, DisableFileChunking, first, cf, fs, it, cres, eager, conc>>

\* The longest file and the longest default wordlist, in lines.
MaxLines == 2

\* The longest file handed to NewChunkedFile, in lines.
MaxFileLines == 3

\* The scanners' line cap (1 MiB in the source), scaled: a longer line is a
\* read error.
MaxLineLength == 2

\* The chunk budget (500 MiB in the source), scaled, in bytes.
FileChunkSize == 4

\* The size from which a file is chunked (1 GiB in the source), scaled.
LargeFileThreshold == 6

-----------------------------------------------------------------------------
(* Strings and sources *)

EmptyStr == <<>>

SeqsUpTo(S, n) == UNION {[1..k -> S] : k \in 0..n}

\* Lines of a user file (a blank line is the empty string).
UserLines == {EmptyStr, <<"a">>, <<"b">>}

\* Entries of literals and default wordlists: never empty.
UserNames == {<<"a">>, <<"b">>}

\* Password literals.
PassWords == {<<"p">>, <<"q">>}

\* Lines of a combo file, and literal combo values.
ComboLines ==
  { <<"a", ":", "p">>, <<"a">>, <<"a", ":", "p", ":", "q">>, <<":">>, EmptyStr }

\* A raw configuration value: "" (kind empty), the path of an existing file
\* (kind file, with the file's lines) or any other string (kind literal).
EmptySpec == [kind |-> "empty", val |-> EmptyStr, lines |-> <<>>]

LiteralSpec(v) == [kind |-> "literal", val |-> v, lines |-> <<>>]

FileSpec(ls) == [kind |-> "file", val |-> <<"/">>, lines |-> ls]

\* IsFile(path): the value names an existing file.
IsFile(spec) == spec.kind = "file"

\* strings.Contains(line, ":")
HasColon(s) == \E i \in 1..Len(s) : s[i] = ":"

\* The index of the first colon of s (s has one).
FirstColon(s) == CHOOSE i \in 1..Len(s) : s[i] = ":" /\ \A j \in 1..(i - 1) : s[j] # ":"

\* The index of the last colon of s (s has one).
LastColon(s) == CHOOSE i \in 1..Len(s) : s[i] = ":" /\ \A j \in (i + 1)..Len(s) : s[j] # ":"

\* strings.SplitN(s, ":", 2) cut at colon number k of s.
SplitAt(s, k) == <<SubSeq(s, 1, k - 1), SubSeq(s, k + 1, Len(s))>>

SplitN2_AtLastColon(s) == IF HasColon(s) THEN SplitAt(s, LastColon(s)) ELSE <<s>>

\* strings.SplitN(s, ":", 2): one part without a colon, else two parts cut at
\* the first colon.
SplitN2(s) == IF HasColon(s) THEN SplitAt(s, FirstColon(s)) ELSE <<s>>

-----------------------------------------------------------------------------
(* Chunked files (file_chunker.go): the files on disk *)

\* The line made of k times the character c.
Fill(c, k) == [i \in 1..k |-> c]

\* The lines of the files handed to NewChunkedFile: an empty line, a short
\* line, a line at the scanners' cap and a line one character over it.
ChunkLines == {EmptyStr, <<"b">>, Fill("a", MaxLineLength), Fill("a", MaxLineLength + 1)}

\* A path: the original file, or chunk number k of the temporary directory.
OriginalFilePath == [dir |-> "", name |-> 0]

ChunkPath(tempDir, k) == [dir |-> tempDir, name |-> k]

\* The name os.MkdirTemp gives the temporary directory.
TempDirName == "brutespray-chunks"

\* The files on disk: the original file's lines and whether it still exists
\* unmodified, the temporary directory and its chunk files (chunk k is
\* chunks[k + 1]), whether a temporary directory was ever made, and the handles
\* a chunk iterator holds open.
NewFiles(lines) ==
  [ orig |-> lines, origIntact |-> TRUE, tempDir |-> FALSE, chunks |-> <<>>,
    everTempDir |-> FALSE, handles |-> 0 ]

\* The bytes of a file of these lines, each ended by a newline.
RECURSIVE FileSize(_)
FileSize(lines) ==
  IF lines = <<>> THEN 0 ELSE Len(Head(lines)) + 1 + FileSize(Tail(lines))

\* The file at path p, if any.
FileAt(fsys, p) ==
  IF p.dir = ""
  THEN [exists |-> fsys.origIntact, lines |-> fsys.orig]
  ELSE IF fsys.tempDir /\ p.dir = TempDirName /\ p.name < Len(fsys.chunks)
  THEN [exists |-> TRUE, lines |-> fsys.chunks[p.name + 1]]
  ELSE [exists |-> FALSE, lines |-> <<>>]

\* os.RemoveAll(path): the temporary directory and what it holds; the empty
\* path removes nothing.
RemoveAll(fsys, path) ==
  IF path = TempDirName THEN [fsys EXCEPT !.tempDir = FALSE, !.chunks = <<>>] ELSE fsys

\* What a scanner over these lines returns before it stops: the lines up to
\* the first one over the cap, which is a read error.
RECURSIVE Scanned(_)
Scanned(lines) ==
  IF lines = <<>> THEN [lines |-> <<>>, err |-> FALSE]
  ELSE IF Len(Head(lines)) > MaxLineLength THEN [lines |-> <<>>, err |-> TRUE]
  ELSE LET r == Scanned(Tail(lines))
       IN  [lines |-> <<Head(lines)>> \o r.lines, err |-> r.err]

-----------------------------------------------------------------------------
(* The iterator's fields after NewCredentialIterator *)

NoScanner == [set |-> FALSE, pos |-> 0, err |-> FALSE, eof |-> FALSE]

NewScanner == [set |-> TRUE, pos |-> 0, err |-> FALSE, eof |-> FALSE]

NewCredentialIterator ==
  [ userFile |-> "nil", passwordFile |-> "nil", comboFile |-> "nil",
    userScanner |-> NoScanner, passScanner |-> NoScanner, comboScanner |-> NoScanner,
    passwordFilePath |-> "",
    currentUser |-> EmptyStr, currentPassword |-> EmptyStr,
    users |-> <<>>, passwords |-> <<>>, userIndex |-> 0, passIndex |-> 0,
    useDefaultUsers |-> FALSE, useDefaultPass |-> FALSE,
    done |-> FALSE, initialized |-> FALSE ]

isComboMode == cfg.combo.kind # "empty"

isPasswordOnly == cfg.isPasswordOnly

Sources == {"user", "password", "combo"}

\* The system: the handles open per source, how often sources were resolved,
\* what went wrong so far, and the closes that failed in the last Close().
InitSys ==
  [ open |-> [s \in Sources |-> 0],
    doubleClose |-> FALSE, readFailed |-> FALSE, openFailed |-> FALSE,
    resetFailed |-> FALSE, configError |-> FALSE, closeCalled |-> FALSE,
    resolved |-> 0, reopened |-> FALSE, closeFails |-> {} ]

\* What the last call returned: Next() its (user, password, ok), Close() its
\* error, named by the source whose close failed ("nil": no error).
NoRet == [user |-> EmptyStr, password |-> EmptyStr, ok |-> FALSE, err |-> "nil"]

\* The default wordlists of the external lookup: a, b, a, ... and p, q, p, ...
Alternate(x, y, k) == [i \in 1..k |-> IF i % 2 = 1 THEN x ELSE y]

DefaultUserLists == {Alternate(<<"a">>, <<"b">>, k) : k \in 0..MaxLines}

DefaultPasswordLists == {Alternate(<<"p">>, <<"q">>, k) : k \in 0..MaxLines}

\* The password files: p, q, p, ... of every length.
PasswordFiles == {Alternate(<<"p">>, <<"q">>, k) : k \in 0..MaxLines}

\* The user and the password specification, each with the default wordlist
\* the lookup returns for it.
UserSpecs ==
  {[spec |-> FileSpec(ls), dflt |-> <<>>] : ls \in SeqsUpTo(UserLines, MaxLines)}
    \cup {[spec |-> LiteralSpec(v), dflt |-> <<>>] : v \in UserNames}
    \cup {[spec |-> EmptySpec, dflt |-> d] : d \in DefaultUserLists}

PasswordSpecs ==
  {[spec |-> FileSpec(ls), dflt |-> <<>>, empty |-> FALSE] : ls \in PasswordFiles}
    \cup {[spec |-> LiteralSpec(v), dflt |-> <<>>, empty |-> FALSE] : v \in PassWords}
    \cup {[spec |-> EmptySpec, dflt |-> d, empty |-> FALSE] : d \in DefaultPasswordLists}
    \cup {[spec |-> EmptySpec, dflt |-> <<>>, empty |-> TRUE]}

\* The user specifications tried in password-only mode, one of each kind.
PasswordOnlyUserSpecs ==
  { [spec |-> FileSpec(<<<<"a">>, <<"b">>>>), dflt |-> <<>>],
    [spec |-> LiteralSpec(<<"a">>), dflt |-> <<>>],
    [spec |-> EmptySpec, dflt |-> <<<<"a">>>>] }

Config(u, p, c, po) ==
  [ user |-> u.spec, password |-> p.spec, combo |-> c, isPasswordOnly |-> po,
    UseEmptyPassword |-> p.empty, defaultUsers |-> u.dflt, defaultPasswords |-> p.dflt ]

\* Standard mode: no combo, not password-only.
StandardConfigs == {Config(u, p, EmptySpec, FALSE) : u \in UserSpecs, p \in PasswordSpecs}

\* Password-only mode: no combo, the password-only flag set.
PasswordOnlyConfigs ==
  {Config(u, p, EmptySpec, TRUE) : u \in PasswordOnlyUserSpecs, p \in PasswordSpecs}

\* Combo mode: a combo file or a literal combo value, whatever else is given.
ComboSpecs ==
  {FileSpec(ls) : ls \in SeqsUpTo(ComboLines, MaxLines)}
    \cup {LiteralSpec(v) : v \in ComboLines \ {EmptyStr}}

ComboConfigs ==
  {Config([spec |-> EmptySpec, dflt |-> <<>>],
          [spec |-> EmptySpec, dflt |-> <<>>, empty |-> FALSE], c, FALSE) : c \in ComboSpecs}
    \cup {Config([spec |-> LiteralSpec(<<"a">>), dflt |-> <<>>],
                 [spec |-> LiteralSpec(<<"p">>), dflt |-> <<>>, empty |-> FALSE], c, TRUE) :
            c \in ComboSpecs}
    \cup {Config([spec |-> FileSpec(<<<<"a">>, <<"b">>>>), dflt |-> <<>>],
                 [spec |-> FileSpec(<<<<"p">>, <<"q">>>>), dflt |-> <<>>, empty |-> FALSE],
                 c, FALSE) :
            c \in ComboSpecs}

\* The run of an earlier iterator over the same sources, for comparison:
\* what it emitted, and whether it ran without failure.
NoFirst == [set |-> FALSE, out |-> <<>>, clean |-> TRUE]

\* The chunked file's side, idle while the credential iterator runs.
ChunkIdle ==
  /\ cf = [ nil |-> TRUE, OriginalPath |-> [dir |-> "", name |-> 0], ChunkPaths |-> <<>>,
            TempDir |-> "", ChunkSize |-> 0, IsChunked |-> FALSE ]
  /\ fs = NewFiles(<<>>)
  /\ it = [ nil |-> TRUE, chunks |-> <<>>, currentIndex |-> -1, currentFile |-> "nil",
            cleanup |-> FALSE, handed |-> <<>>, exhausted |-> FALSE ]
  /\ cres = [ op |-> "none", err |-> "nil", ok |-> FALSE, count |-> 0, lines |-> <<>>,
              openFails |-> 0, cbFails |-> 0, invoked |-> FALSE ]

\* GetUsersAndPasswords before its goroutines have run: each producer at
\* its start, both channels open and empty-handed, the consumer ranging over
\* the user channel.
NoEager ==
  [ pc |-> [user |-> "start", password |-> "start"],
    list |-> [user |-> <<>>, password |-> <<>>],
    sent |-> [user |-> 0, password |-> 0],
    closed |-> [user |-> FALSE, password |-> FALSE],
    main |-> "user",
    slice |-> [user |-> <<>>, password |-> <<>>],
    exited |-> FALSE ]

\* The goroutines around one chunked file, before there is one: the holder
\* of the mutex, where each goroutine is, and what the counting pass has so
\* far: the chunk paths it got, the chunk it is at, its open chunk, its
\* count and its return; and the return of the consuming pass's Cleanup.
NoConc ==
  [ mutex |-> "free",
    pc |-> [creator |-> "new", counter |-> "gp_lock", consumer |-> "gp_lock"],
    paths |-> <<>>, k |-> 1, count |-> 0,
    handle |-> [open |-> FALSE, lines |-> <<>>],
    result |-> [count |-> 0, err |-> "nil"],
    cleanupErr |-> "nil" ]

\* Nothing runs concurrently with the calls of the sequential specifications.
ConcIdle == eager = NoEager /\ conc = NoConc

Init ==
  /\ cfg \in StandardConfigs \cup PasswordOnlyConfigs \cup ComboConfigs
  /\ ci = NewCredentialIterator
  /\ sys = InitSys
  /\ out = <<>>
  /\ lastOp = "none"
  /\ ret = NoRet
  /\ DisableFileChunking = FALSE
  /\ first = NoFirst
  /\ ChunkIdle
  /\ ConcIdle

\* GetUsersFromDefaultWordlist(version, service), an external lookup.
GetUsersFromDefaultWordlist == cfg.defaultUsers

\* GetPasswordsFromDefaultWordlist(version, service), an external lookup.
GetPasswordsFromDefaultWordlist == cfg.defaultPasswords

-----------------------------------------------------------------------------
(* Files.  A world w is [ci |-> the iterator, sys |-> the system].          *)

\* os.Open of source s: with fail the open returns an error.
Open(w, s, fail) ==
  IF fail
  THEN [w |-> [w EXCEPT !.sys.openFailed = TRUE], ok |-> FALSE]
  ELSE [w |-> [w EXCEPT !.sys.open[s] = @ + 1], ok |-> TRUE]

\* (*os.File).Close on the handle a field of state h holds: an open handle is
\* released; closing a closed handle is a double release and an error.
CloseHandle(w, s, h) ==
  IF h = "open"
  THEN [w EXCEPT !.sys.open[s] = @ - 1]
  ELSE [w EXCEPT !.sys.doubleClose = TRUE]

\* (*bufio.Scanner).Scan on a scanner over `lines`, whose file is in state h.
\* A scanner that returned false (end of file or error) is finished.  A read
\* fails when the environment says so (an I/O error, a line over the 1 MiB
\* cap) or when nothing was read before the file was closed; the lines that
\* follow a first read come from the scanner's buffer.
Scan(sc, lines, h, fail) ==
  IF sc.err \/ sc.eof
  THEN [ok |-> FALSE, sc |-> sc, text |-> EmptyStr, failed |-> FALSE]
  ELSE IF fail \/ (h # "open" /\ sc.pos = 0)
  THEN [ok |-> FALSE, sc |-> [sc EXCEPT !.err = TRUE], text |-> EmptyStr, failed |-> TRUE]
  ELSE IF sc.pos < Len(lines)
  THEN [ok |-> TRUE, sc |-> [sc EXCEPT !.pos = @ + 1], text |-> lines[sc.pos + 1],
        failed |-> FALSE]
  ELSE [ok |-> FALSE, sc |-> [sc EXCEPT !.eof = TRUE], text |-> EmptyStr, failed |-> FALSE]

\* What a scan's failure leaves in the system's record.
NoteRead(w, r) == [w EXCEPT !.sys.readFailed = @ \/ r.failed]


-----------------------------------------------------------------------------
(* Close *)

\* One of Close's blocks that leaves the password file alone.
CloseField_KeepsPassword(r, s, field, fails) ==
  IF r.w.ci[field] = "nil" \/ s = "password"
  THEN r
  ELSE [ w |-> [CloseHandle(r.w, s, r.w.ci[field]) EXCEPT !.ci[field] = "nil"],
         errors |-> IF r.w.ci[field] = "closed" \/ s \in fails
                    THEN Append(r.errors, s) ELSE r.errors ]

\* One of Close's three blocks: a field that is not nil is closed and set to
\* nil; the close's error, if any, is appended to errors.
CloseField(r, s, field, fails) ==
  IF r.w.ci[field] = "nil"
  THEN r
  ELSE [ w |-> [CloseHandle(r.w, s, r.w.ci[field]) EXCEPT !.ci[field] = "nil"],
         errors |-> IF r.w.ci[field] = "closed" \/ s \in fails
                    THEN Append(r.errors, s) ELSE r.errors ]

\* Close() returning the last error instead of the first.
Close_ReturnsLastError(w, fails) ==
  LET r0 == [w |-> w, errors |-> <<>>]
      r1 == CloseField(r0, "user", "userFile", fails)
      r2 == CloseField(r1, "password", "passwordFile", fails)
      r3 == CloseField(r2, "combo", "comboFile", fails)
  IN  [w |-> r3.w, err |-> IF Len(r3.errors) > 0 THEN r3.errors[Len(r3.errors)] ELSE "nil"]

\* Close(): the user, password and combo files in this order; fails are the
\* sources whose close reports an error.  err is the source of the error
\* returned, "nil" for none.
Close(w, fails) ==
  LET r0 == [w |-> w, errors |-> <<>>]
      r1 == CloseField(r0, "user", "userFile", fails)
      r2 == CloseField(r1, "password", "passwordFile", fails)
      r3 == CloseField(r2, "combo", "comboFile", fails)
  IN  [w |-> r3.w, err |-> IF Len(r3.errors) > 0 THEN r3.errors[1] ELSE "nil"]

-----------------------------------------------------------------------------
(* initialize *)

\* initializeCombo without the check of the literal's format.
initializeCombo_NoFormatCheck(w, openFails) ==
  IF IsFile(cfg.combo)
  THEN LET o == Open(w, "combo", "combo" \in openFails)
       IN  IF ~o.ok
           THEN [w |-> o.w, err |-> "open"]
           ELSE [w |-> [o.w EXCEPT !.ci.comboFile = "open", !.ci.comboScanner = NewScanner],
                 err |-> "nil"]
  ELSE LET splits == SplitN2(cfg.combo.val)
       IN  [w |-> [w EXCEPT !.ci.users = <<splits[1]>>,
                            !.ci.passwords = <<IF Len(splits) = 2 THEN splits[2] ELSE EmptyStr>>],
            err |-> "nil"]

\* initializeCombo: a combo file is opened; a literal is split once.
initializeCombo(w, openFails) ==
  IF IsFile(cfg.combo)
  THEN LET o == Open(w, "combo", "combo" \in openFails)
       IN  IF ~o.ok
           THEN [w |-> o.w, err |-> "open"]
           ELSE [w |-> [o.w EXCEPT !.ci.comboFile = "open", !.ci.comboScanner = NewScanner],
                 err |-> "nil"]
  ELSE LET splits == SplitN2(cfg.combo.val)
       IN  IF Len(splits) # 2
           THEN [w |-> [w EXCEPT !.sys.configError = TRUE], err |-> "config"]
           ELSE [w |-> [w EXCEPT !.ci.users = <<splits[1]>>, !.ci.passwords = <<splits[2]>>],
                 err |-> "nil"]

\* The user half of initialize.
initializeUsers(w, openFails) ==
  IF isPasswordOnly
  THEN [w |-> [w EXCEPT !.ci.users = <<EmptyStr>>, !.ci.userIndex = 0,
                        !.ci.currentUser = EmptyStr],
        err |-> "nil"]
  ELSE IF cfg.user.kind # "empty"
  THEN IF IsFile(cfg.user)
       THEN LET o == Open(w, "user", "user" \in openFails)
            IN  IF ~o.ok
                THEN [w |-> o.w, err |-> "open"]
                ELSE [w |-> [o.w EXCEPT !.ci.userFile = "open",
                                        !.ci.userScanner = NewScanner],
                      err |-> "nil"]
       ELSE [w |-> [w EXCEPT !.ci.users = <<cfg.user.val>>], err |-> "nil"]
  ELSE [w |-> [w EXCEPT !.ci.useDefaultUsers = TRUE,
                        !.ci.users = GetUsersFromDefaultWordlist],
        err |-> "nil"]

\* The password half of initialize; a failed open closes what was opened.
initializePasswords(w, openFails) ==
  IF cfg.password.kind # "empty"
  THEN IF IsFile(cfg.password)
       THEN LET o == Open(w, "password", "password" \in openFails)
            IN  IF ~o.ok
                THEN [w |-> Close(o.w, {}).w, err |-> "open"]
                ELSE [w |-> [o.w EXCEPT !.ci.passwordFile = "open",
                                        !.ci.passwordFilePath = "path",
                                        !.ci.passScanner = NewScanner],
                      err |-> "nil"]
       ELSE [w |-> [w EXCEPT !.ci.passwords = <<cfg.password.val>>], err |-> "nil"]
  ELSE IF cfg.UseEmptyPassword
  THEN [w |-> [w EXCEPT !.ci.passwords = <<EmptyStr>>], err |-> "nil"]
  ELSE [w |-> [w EXCEPT !.ci.useDefaultPass = TRUE,
                        !.ci.passwords = GetPasswordsFromDefaultWordlist],
        err |-> "nil"]

\* initialize without the "already initialized" guard.
initialize_EveryCall(w, openFails) ==
  LET w1 == [w EXCEPT !.ci.initialized = TRUE, !.sys.resolved = @ + 1]
  IN  IF isComboMode
      THEN initializeCombo(w1, openFails)
      ELSE LET u == initializeUsers(w1, openFails)
           IN  IF u.err # "nil" THEN u ELSE initializePasswords(u.w, openFails)

\* initialize: runs once; openFails are the sources whose os.Open fails.
initialize(w, openFails) ==
  IF w.ci.initialized
  THEN [w |-> w, err |-> "nil"]
  ELSE LET w1 == [w EXCEPT !.ci.initialized = TRUE, !.sys.resolved = @ + 1]
       IN  IF isComboMode
           THEN initializeCombo(w1, openFails)
           ELSE LET u == initializeUsers(w1, openFails)
                IN  IF u.err # "nil" THEN u ELSE initializePasswords(u.w, openFails)

-----------------------------------------------------------------------------
(* Next and its helpers.  Each returns the world it leaves and its result. *)

Pair(u, p) == [user |-> u, password |-> p, ok |-> TRUE, err |-> "nil"]

\* The return of every exhausted path: done is set, ("", "", false).
Exhausted(w) == [w |-> [w EXCEPT !.ci.done = TRUE], ret |-> NoRet]

\* nextUser: from the user file, else from the users slice.
nextUser(w, fail) ==
  IF w.ci.userScanner.set
  THEN LET r == Scan(w.ci.userScanner, cfg.user.lines, w.ci.userFile, fail)
           w1 == NoteRead([w EXCEPT !.ci.userScanner = r.sc], r)
       IN  IF r.ok
           THEN [w |-> [w1 EXCEPT !.ci.currentUser = r.text], ok |-> TRUE]
           ELSE [w |-> w1, ok |-> FALSE]
  ELSE IF w.ci.userIndex < Len(w.ci.users)
  THEN [w |-> [w EXCEPT !.ci.currentUser = w.ci.users[w.ci.userIndex + 1],
                        !.ci.userIndex = @ + 1],
        ok |-> TRUE]
  ELSE [w |-> w, ok |-> FALSE]

\* nextPassword: from the password file, else from the passwords slice.
nextPassword(w, fail) ==
  IF w.ci.passScanner.set
  THEN LET r == Scan(w.ci.passScanner, cfg.password.lines, w.ci.passwordFile, fail)
           w1 == NoteRead([w EXCEPT !.ci.passScanner = r.sc], r)
       IN  IF r.ok
           THEN [w |-> [w1 EXCEPT !.ci.currentPassword = r.text], ok |-> TRUE]
           ELSE [w |-> w1, ok |-> FALSE]
  ELSE IF w.ci.passIndex < Len(w.ci.passwords)
  THEN [w |-> [w EXCEPT !.ci.currentPassword = w.ci.passwords[w.ci.passIndex + 1],
                        !.ci.passIndex = @ + 1],
        ok |-> TRUE]
  ELSE [w |-> w, ok |-> FALSE]

\* The file branch of resetPasswords once the seek has succeeded or the file
\* was reopened: a new scanner over the file.
Rewound(w) == [w EXCEPT !.ci.passScanner = NewScanner, !.ci.currentPassword = EmptyStr]

\* resetPasswords reopening the stored path without closing the old handle.
resetPasswords_NoCloseBeforeReopen(w, seekFails, reopenFails) ==
  IF w.ci.passScanner.set
  THEN IF w.ci.passwordFile # "nil"
       THEN IF seekFails \/ w.ci.passwordFile = "closed"
            THEN IF w.ci.passwordFilePath # ""
                 THEN LET c == w
                          o == Open(c, "password", reopenFails)
                      IN  IF ~o.ok
                          THEN [o.w EXCEPT !.sys.resetFailed = TRUE, !.ci.done = TRUE]
                          ELSE Rewound([o.w EXCEPT !.ci.passwordFile = "open",
                                                   !.sys.reopened = TRUE])
                 ELSE [w EXCEPT !.sys.resetFailed = TRUE, !.ci.done = TRUE]
            ELSE Rewound(w)
       ELSE [w EXCEPT !.ci.currentPassword = EmptyStr]
  ELSE [w EXCEPT !.ci.passIndex = 0, !.ci.currentPassword = EmptyStr]

\* resetPasswords carrying on with the old handle when the reopen fails.
resetPasswords_IgnoresFailedReopen(w, seekFails, reopenFails) ==
  IF w.ci.passScanner.set
  THEN IF w.ci.passwordFile # "nil"
       THEN IF seekFails \/ w.ci.passwordFile = "closed"
            THEN IF w.ci.passwordFilePath # ""
                 THEN LET o == Open(w, "password", reopenFails)
                      IN  IF ~o.ok
                          THEN Rewound([w EXCEPT !.sys.resetFailed = TRUE])
                          ELSE Rewound([CloseHandle(o.w, "password", w.ci.passwordFile)
                                          EXCEPT !.ci.passwordFile = "open",
                                                 !.sys.reopened = TRUE])
                 ELSE [w EXCEPT !.sys.resetFailed = TRUE, !.ci.done = TRUE]
            ELSE Rewound(w)
       ELSE [w EXCEPT !.ci.currentPassword = EmptyStr]
  ELSE [w EXCEPT !.ci.passIndex = 0, !.ci.currentPassword = EmptyStr]

\* resetPasswords: seek to the start; when the seek fails, close and reopen
\* the stored path; when that fails too, done.  A seek on a closed file fails.
\* After the failed reopen the field still holds the handle just closed.
resetPasswords(w, seekFails, reopenFails) ==
  IF w.ci.passScanner.set
  THEN IF w.ci.passwordFile # "nil"
       THEN IF seekFails \/ w.ci.passwordFile = "closed"
            THEN IF w.ci.passwordFilePath # ""
                 THEN LET c == [CloseHandle(w, "password", w.ci.passwordFile)
                                  EXCEPT !.ci.passwordFile = "closed"]
                          o == Open(c, "password", reopenFails)
                      IN  IF ~o.ok
                          THEN [o.w EXCEPT !.sys.resetFailed = TRUE, !.ci.done = TRUE]
                          ELSE Rewound([o.w EXCEPT !.ci.passwordFile = "open",
                                                   !.sys.reopened = TRUE])
                 ELSE [w EXCEPT !.sys.resetFailed = TRUE, !.ci.done = TRUE]
            ELSE Rewound(w)
       ELSE [w EXCEPT !.ci.currentPassword = EmptyStr]
  ELSE [w EXCEPT !.ci.passIndex = 0, !.ci.currentPassword = EmptyStr]

\* The pair nextStandard returns after a successful nextPassword.
Current(w) == [w |-> w, ret |-> Pair(w.ci.currentUser, w.ci.currentPassword)]

\* nextStandard from "Try to get next password for current user" on.
nextStandardTail(w, in) ==
  LET p1 == nextPassword(w, in.p1)
  IN  IF p1.ok
      THEN Current(p1.w)
      ELSE LET w2 == resetPasswords(p1.w, in.seek, in.reopen)
               u2 == nextUser(w2, in.u2)
           IN  IF ~u2.ok
               THEN Exhausted(u2.w)
               ELSE LET p2 == nextPassword(u2.w, in.p2)
                    IN  IF p2.ok THEN Current(p2.w) ELSE Exhausted(p2.w)

\* nextStandard: the next (user, password) of the cross product.
nextStandard(w, in) ==
  IF w.ci.currentUser = EmptyStr
  THEN LET u1 == nextUser(w, in.u1)
       IN  IF ~u1.ok THEN Exhausted(u1.w) ELSE nextStandardTail(u1.w, in)
  ELSE nextStandardTail(w, in)

\* nextPasswordOnly: the next password, with an empty user.
nextPasswordOnly(w, in) ==
  IF w.ci.passScanner.set
  THEN LET r == Scan(w.ci.passScanner, cfg.password.lines, w.ci.passwordFile, in.p1)
           w1 == NoteRead([w EXCEPT !.ci.passScanner = r.sc], r)
       IN  IF r.ok
           THEN [w |-> w1, ret |-> Pair(EmptyStr, r.text)]
           ELSE Exhausted(w1)
  ELSE IF w.ci.passIndex < Len(w.ci.passwords)
  THEN [w |-> [w EXCEPT !.ci.passIndex = @ + 1],
        ret |-> Pair(EmptyStr, w.ci.passwords[w.ci.passIndex + 1])]
  ELSE Exhausted(w)

\* The loop of nextCombo over the combo file: the first line with a colon is
\* returned split, lines without one are skipped; the read number reads + 1
\* of this call fails.
RECURSIVE comboLoop(_, _)
comboLoop(w, reads) ==
  LET r == Scan(w.ci.comboScanner, cfg.combo.lines, w.ci.comboFile, reads = 0)
      w1 == NoteRead([w EXCEPT !.ci.comboScanner = r.sc], r)
  IN  IF ~r.ok
      THEN Exhausted(w1)
      ELSE LET splits == SplitN2(r.text)
           IN  IF Len(splits) = 2
               THEN [w |-> w1, ret |-> Pair(splits[1], splits[2])]
               ELSE comboLoop(w1, reads - 1)

\* nextCombo handing out the literal pair without advancing past it.
nextCombo_LiteralAgain(w, in) ==
  IF w.ci.comboScanner.set
  THEN comboLoop(w, in.reads)
  ELSE IF w.ci.userIndex < Len(w.ci.users)
  THEN [w |-> w,
        ret |-> Pair(w.ci.users[w.ci.userIndex + 1], w.ci.passwords[w.ci.userIndex + 1])]
  ELSE Exhausted(w)

\* nextCombo: from the combo file, else the single literal pair.
nextCombo(w, in) ==
  IF w.ci.comboScanner.set
  THEN comboLoop(w, in.reads)
  ELSE IF w.ci.userIndex < Len(w.ci.users)
  THEN [w |-> [w EXCEPT !.ci.userIndex = @ + 1],
        ret |-> Pair(w.ci.users[w.ci.userIndex + 1], w.ci.passwords[w.ci.userIndex + 1])]
  ELSE Exhausted(w)

\* Next() without "done = true" after a failed initialize.
IterNext_InitFailureNotDone(w, openFails, in) ==
  LET i == initialize(w, openFails)
  IN  IF i.err # "nil"
      THEN [w |-> i.w, ret |-> NoRet]
      ELSE IF i.w.ci.done
      THEN [w |-> i.w, ret |-> NoRet]
      ELSE IF isComboMode
      THEN nextCombo(i.w, in)
      ELSE IF isPasswordOnly
      THEN nextPasswordOnly(i.w, in)
      ELSE nextStandard(i.w, in)

\* Next() without the password-only branch.
IterNext_NoPasswordOnly(w, openFails, in) ==
  LET i == initialize(w, openFails)
  IN  IF i.err # "nil"
      THEN Exhausted(i.w)
      ELSE IF i.w.ci.done
      THEN [w |-> i.w, ret |-> NoRet]
      ELSE IF isComboMode
      THEN nextCombo(i.w, in)
      ELSE nextStandard(i.w, in)

\* Next() testing the password-only flag before the combo mode.
IterNext_PasswordOnlyFirst(w, openFails, in) ==
  LET i == initialize(w, openFails)
  IN  IF i.err # "nil"
      THEN Exhausted(i.w)
      ELSE IF i.w.ci.done
      THEN [w |-> i.w, ret |-> NoRet]
      ELSE IF isPasswordOnly
      THEN nextPasswordOnly(i.w, in)
      ELSE IF isComboMode
      THEN nextCombo(i.w, in)
      ELSE nextStandard(i.w, in)

\* Next(): initialize on first use, then the mode's step.
IterNext(w, openFails, in) ==
  LET i == initialize(w, openFails)
  IN  IF i.err # "nil"
      THEN Exhausted(i.w)
      ELSE IF i.w.ci.done
      THEN [w |-> i.w, ret |-> NoRet]
      ELSE IF isComboMode
      THEN nextCombo(i.w, in)
      ELSE IF isPasswordOnly
      THEN nextPasswordOnly(i.w, in)
      ELSE nextStandard(i.w, in)

-----------------------------------------------------------------------------
(* The caller's steps *)

\* What the environment decides during one Next(): which reads, seeks and
\* reopens fail.
NoFail ==
  [u1 |-> FALSE, p1 |-> FALSE, seek |-> FALSE, reopen |-> FALSE, u2 |-> FALSE,
   p2 |-> FALSE, reads |-> MaxLines + 1]

\* A read, seek or open of a source can only fail when the source is a file.
FailBit(spec) == IF IsFile(spec) THEN BOOLEAN ELSE {FALSE}

\* The seek of resetPasswords and the reopen that follows a failed seek.
SeekBits(spec) ==
  IF IsFile(spec) THEN {<<FALSE, FALSE>>, <<TRUE, FALSE>>, <<TRUE, TRUE>>} ELSE {<<FALSE, FALSE>>}

\* The environment's choices that the call in this state can meet: none once
\* done, and the first nextUser only when no user is current.
MayFail ==
  IF ci.done
  THEN {NoFail}
  ELSE IF isComboMode
  THEN {[NoFail EXCEPT !.reads = k] :
          k \in IF IsFile(cfg.combo) THEN 0..(MaxLines + 1) ELSE {MaxLines + 1}}
  ELSE IF isPasswordOnly
  THEN {[NoFail EXCEPT !.p1 = b] : b \in FailBit(cfg.password)}
  ELSE {[NoFail EXCEPT !.u1 = a, !.p1 = b, !.seek = sr[1], !.reopen = sr[2], !.u2 = e,
                        !.p2 = f] :
          a \in IF ci.currentUser = EmptyStr THEN FailBit(cfg.user) ELSE {FALSE},
          b \in FailBit(cfg.password), sr \in SeekBits(cfg.password),
          e \in FailBit(cfg.user), f \in FailBit(cfg.password)}

\* The sources whose os.Open can fail in initialize: the files, before the
\* first Next().
OpenMayFail ==
  IF ci.initialized
  THEN {{}}
  ELSE SUBSET {s \in Sources : \/ s = "user" /\ IsFile(cfg.user)
                               \/ s = "password" /\ IsFile(cfg.password)
                               \/ s = "combo" /\ IsFile(cfg.combo)}

\* The handles whose close can report an error: the open ones.
CloseMayFail ==
  SUBSET {s \in Sources : \/ s = "user" /\ ci.userFile = "open"
                          \/ s = "password" /\ ci.passwordFile = "open"
                          \/ s = "combo" /\ ci.comboFile = "open"}

\* The closes of a Close() that report an error: those the environment fails
\* and those of a handle that is closed already.
CloseErrors(fails) ==
  fails \cup {s \in Sources : ci[s \o "File"] = "closed"}

NextCall ==
  \E openFails \in OpenMayFail, in \in MayFail :
    LET r == IterNext([ci |-> ci, sys |-> sys], openFails, in)
    IN  /\ ci' = r.w.ci
        /\ sys' = r.w.sys
        /\ ret' = r.ret
        /\ out' = IF r.ret.ok THEN Append(out, <<r.ret.user, r.ret.password>>) ELSE out
        /\ lastOp' = "Next"
        /\ UNCHANGED <<cfg, DisableFileChunking, first, chunkVars, concVars>>

CloseCall ==
  \E fails \in CloseMayFail :
    LET r == Close([ci |-> ci, sys |-> [sys EXCEPT !.closeCalled = TRUE,
                                                   !.closeFails = CloseErrors(fails)]],
                   fails)
    IN  /\ ci' = r.w.ci
        /\ sys' = r.w.sys
        /\ ret' = [NoRet EXCEPT !.err = r.err]
        /\ lastOp' = "Close"
        /\ UNCHANGED <<cfg, out, DisableFileChunking, first, chunkVars, concVars>>

Next == NextCall \/ CloseCall

Spec == Init /\ [][Next]_vars

\* The test of the iterator under both settings of DisableFileChunking: a
\* first iterator is run to its end with the flag set, then a second one over
\* the same user and password files with the flag cleared.
SecondIterator ==
  /\ ci.done /\ ~first.set
  /\ first' = [ set |-> TRUE, out |-> out,
                clean |-> ~sys.readFailed /\ ~sys.openFailed /\ ~sys.resetFailed ]
  /\ DisableFileChunking' = FALSE
  /\ ci' = NewCredentialIterator
  /\ sys' = InitSys
  /\ out' = <<>>
  /\ lastOp' = "none"
  /\ ret' = NoRet
  /\ UNCHANGED <<cfg, chunkVars, concVars>>

ChunkingTestInit ==
  /\ cfg \in {c \in StandardConfigs : IsFile(c.user) /\ IsFile(c.password)}
  /\ ci = NewCredentialIterator
  /\ sys = InitSys
  /\ out = <<>>
  /\ lastOp = "none"
  /\ ret = NoRet
  /\ DisableFileChunking = TRUE
  /\ first = NoFirst
  /\ ChunkIdle
  /\ ConcIdle

ChunkingTestNext == NextCall \/ SecondIterator

ChunkingTestSpec == ChunkingTestInit /\ [][ChunkingTestNext]_vars

-----------------------------------------------------------------------------
(* CountCredentials (calc.go) *)

\* One counting scan of CountCredentials over the lines of source s that
\* count: the pass fails when the open or a read fails, else it counts them.
CountFile(counted, s, openFails, readFails) ==
  IF s \in openFails \/ s \in readFails
  THEN [n |-> 0, failed |-> TRUE]
  ELSE [n |-> Len(counted), failed |-> FALSE]

\* "Only count valid combo lines": the split has two parts.
ValidCombo(l) == Len(SplitN2(l)) = 2

\* CountCredentials: the counting pass opens the files itself; openFails and
\* readFails are the sources whose open or scan fails during the pass.
CountCredentials(openFails, readFails) ==
  IF cfg.combo.kind # "empty"
  THEN IF IsFile(cfg.combo)
       THEN CountFile(SelectSeq(cfg.combo.lines, ValidCombo), "combo", openFails, readFails).n
       ELSE 1
  ELSE LET userCount ==
             IF cfg.isPasswordOnly THEN [n |-> 1, failed |-> FALSE]
             ELSE IF cfg.user.kind # "empty"
             THEN IF IsFile(cfg.user)
                  THEN CountFile(cfg.user.lines, "user", openFails, readFails)
                  ELSE [n |-> 1, failed |-> FALSE]
             ELSE [n |-> Len(GetUsersFromDefaultWordlist), failed |-> FALSE]
           passCount ==
             IF cfg.password.kind # "empty"
             THEN IF IsFile(cfg.password)
                  THEN CountFile(cfg.password.lines, "password", openFails, readFails)
                  ELSE [n |-> 1, failed |-> FALSE]
             ELSE IF cfg.UseEmptyPassword
             THEN [n |-> 1, failed |-> FALSE]
             ELSE [n |-> Len(GetPasswordsFromDefaultWordlist), failed |-> FALSE]
       IN  IF userCount.failed \/ passCount.failed THEN 0 ELSE userCount.n * passCount.n

-----------------------------------------------------------------------------
(* GetUsersAndPasswords (calc.go): two producer goroutines, two unbuffered
   channels, and the caller's goroutine draining first the one, then the
   other *)

Channels == {"user", "password"}

\* ReadUsersFromFile and ReadPasswordsFromFile: the lines of the file.
ReadUsersFromFile == cfg.user.lines

ReadPasswordsFromFile == cfg.password.lines

\* What a producer sends once it has resolved its argument: the lines of the
\* file, the literal, or the default wordlist (for the password, a single
\* empty one when UseEmptyPassword is set).
Produced(ch) ==
  IF ch = "user"
  THEN IF cfg.user.kind # "empty"
       THEN IF IsFile(cfg.user) THEN ReadUsersFromFile ELSE <<cfg.user.val>>
       ELSE GetUsersFromDefaultWordlist
  ELSE IF cfg.password.kind # "empty"
       THEN IF IsFile(cfg.password) THEN ReadPasswordsFromFile ELSE <<cfg.password.val>>
       ELSE IF cfg.UseEmptyPassword THEN <<EmptyStr>>
       ELSE GetPasswordsFromDefaultWordlist

\* The argument of a producer.
Argument(ch) == IF ch = "user" THEN cfg.user ELSE cfg.password

\* A producer resolves its argument; when the file cannot be read it ends
\* the process with os.Exit(1).
resolve(e, ch, readFails) ==
  IF readFails
  THEN [e EXCEPT !.exited = TRUE]
  ELSE [e EXCEPT !.pc[ch] = "send", !.list[ch] = Produced(ch)]

\* A send on an unbuffered channel completes with the receive of the range
\* loop that appends the value to its slice.
CanSend(e, ch) ==
  e.pc[ch] = "send" /\ e.sent[ch] < Len(e.list[ch]) /\ e.main = ch /\ ~e.closed[ch]

send(e, ch) ==
  [e EXCEPT !.sent[ch] = @ + 1, !.slice[ch] = Append(@, e.list[ch][e.sent[ch] + 1])]

\* A producer that returns without closing its channel.
closeChannel_Missing(e, ch) == [e EXCEPT !.pc[ch] = "done"]

\* The deferred close(ch) of a producer that has sent everything.
closeChannel(e, ch) == [e EXCEPT !.pc[ch] = "done", !.closed[ch] = TRUE]

\* The range loop over a closed channel ends: the consumer goes on to the
\* password channel, and after it returns the two slices.
rangeEnds(e) ==
  [e EXCEPT !.main = IF e.main = "user" THEN "password" ELSE "returned"]

ProducerResolves ==
  /\ ~eager.exited
  /\ \E ch \in Channels :
       /\ eager.pc[ch] = "start"
       /\ \E readFails \in FailBit(Argument(ch)) : eager' = resolve(eager, ch, readFails)
  /\ UNCHANGED <<iterVars, DisableFileChunking, first, chunkVars, conc>>

Transfer ==
  /\ ~eager.exited
  /\ \E ch \in Channels : CanSend(eager, ch) /\ eager' = send(eager, ch)
  /\ UNCHANGED <<iterVars, DisableFileChunking, first, chunkVars, conc>>

ProducerCloses ==
  /\ ~eager.exited
  /\ \E ch \in Channels :
       /\ eager.pc[ch] = "send" /\ eager.sent[ch] = Len(eager.list[ch])
       /\ eager' = closeChannel(eager, ch)
  /\ UNCHANGED <<iterVars, DisableFileChunking, first, chunkVars, conc>>

ConsumerMovesOn ==
  /\ ~eager.exited
  /\ eager.main \in Channels /\ eager.closed[eager.main]
  /\ eager' = rangeEnds(eager)
  /\ UNCHANGED <<iterVars, DisableFileChunking, first, chunkVars, conc>>

EagerInit ==
  /\ cfg \in StandardConfigs
  /\ ci = NewCredentialIterator
  /\ sys = InitSys
  /\ out = <<>>
  /\ lastOp = "none"
  /\ ret = NoRet
  /\ DisableFileChunking = FALSE
  /\ first = NoFirst
  /\ ChunkIdle
  /\ ConcIdle

EagerNext == ProducerResolves \/ Transfer \/ ProducerCloses \/ ConsumerMovesOn

\* The Go scheduler runs every goroutine that can take a step.
EagerSpec == EagerInit /\ [][EagerNext]_vars /\ WF_vars(EagerNext)

-----------------------------------------------------------------------------
(* ChunkedFile (file_chunker.go) *)

\* No ChunkedFile: the nil pointer NewChunkedFile returns with an error.
NilChunkedFile ==
  [ nil |-> TRUE, OriginalPath |-> OriginalFilePath, ChunkPaths |-> <<>>, TempDir |-> "",
    ChunkSize |-> 0, IsChunked |-> FALSE ]

\* What the environment makes fail during one NewChunkedFile: nothing, the
\* stat, the creation of the temporary directory, the open of the original
\* file, or the read of line `at`, the creation of the chunk file that line
\* `at` starts, the write of line `at`.
NoFault == [kind |-> "none", at |-> 0]

Faults ==
  {NoFault}
    \cup {[kind |-> k, at |-> 0] : k \in {"stat", "mkdir", "open"}}
    \cup {[kind |-> k, at |-> i] : k \in {"read", "create", "write"}, i \in 1..MaxFileLines}

\* The scan loop of createChunks with a budget test that forgets the line
\* about to be written.
RECURSIVE chunkLoop_IgnoresLineSize(_, _, _, _, _, _, _)
chunkLoop_IgnoresLineSize(c, lines, i, chunks, paths, currentSize, fault) ==
  IF i > Len(lines)
  THEN [chunks |-> chunks, paths |-> paths, err |-> "nil"]
  ELSE IF Len(lines[i]) > MaxLineLength \/ (fault.kind = "read" /\ fault.at = i)
  THEN [chunks |-> chunks, paths |-> paths, err |-> "read"]
  ELSE LET line == lines[i]
           lineSize == Len(line) + 1
           startNew == chunks = <<>> \/ currentSize > c.ChunkSize
       IN  IF startNew /\ fault.kind = "create" /\ fault.at = i
           THEN [chunks |-> chunks, paths |-> paths, err |-> "create"]
           ELSE LET chunks1 == IF startNew THEN Append(chunks, <<>>) ELSE chunks
                    paths1 == IF startNew
                              THEN Append(paths, ChunkPath(c.TempDir, Len(paths)))
                              ELSE paths
                    size1 == IF startNew THEN 0 ELSE currentSize
                IN  IF fault.kind = "write" /\ fault.at = i
                    THEN [chunks |-> chunks1, paths |-> paths1, err |-> "write"]
                    ELSE chunkLoop_IgnoresLineSize(c, lines, i + 1,
                                   [chunks1 EXCEPT ![Len(chunks1)] = Append(@, line)],
                                   paths1, size1 + lineSize, fault)

\* The scan loop of createChunks from line i on: chunks are the chunk files
\* written so far, paths their paths, currentSize the bytes in the last one.
RECURSIVE chunkLoop(_, _, _, _, _, _, _)
chunkLoop(c, lines, i, chunks, paths, currentSize, fault) ==
  IF i > Len(lines)
  THEN [chunks |-> chunks, paths |-> paths, err |-> "nil"]
  ELSE IF Len(lines[i]) > MaxLineLength \/ (fault.kind = "read" /\ fault.at = i)
  THEN [chunks |-> chunks, paths |-> paths, err |-> "read"]
  ELSE LET line == lines[i]
           lineSize == Len(line) + 1
           startNew == chunks = <<>> \/ currentSize + lineSize > c.ChunkSize
       IN  IF startNew /\ fault.kind = "create" /\ fault.at = i
           THEN [chunks |-> chunks, paths |-> paths, err |-> "create"]
           ELSE LET chunks1 == IF startNew THEN Append(chunks, <<>>) ELSE chunks
                    paths1 == IF startNew
                              THEN Append(paths, ChunkPath(c.TempDir, Len(paths)))
                              ELSE paths
                    size1 == IF startNew THEN 0 ELSE currentSize
                IN  IF fault.kind = "write" /\ fault.at = i
                    THEN [chunks |-> chunks1, paths |-> paths1, err |-> "write"]
                    ELSE chunkLoop(c, lines, i + 1,
                                   [chunks1 EXCEPT ![Len(chunks1)] = Append(@, line)],
                                   paths1, size1 + lineSize, fault)

\* createChunks that keeps only the last chunk's path.
createChunks_KeepsLastPath(c, fsys, fault) ==
  IF fault.kind = "mkdir"
  THEN [cf |-> c, fs |-> fsys, err |-> "mkdir"]
  ELSE LET c1 == [c EXCEPT !.TempDir = TempDirName, !.IsChunked = TRUE]
           f1 == [fsys EXCEPT !.tempDir = TRUE, !.everTempDir = TRUE]
       IN  IF fault.kind = "open" \/ ~fsys.origIntact
           THEN [cf |-> c1, fs |-> f1, err |-> "open"]
           ELSE LET r == chunkLoop(c1, fsys.orig, 1, <<>>, <<>>, 0, fault)
                IN  [ cf |-> IF r.err = "nil"
                             THEN [c1 EXCEPT !.ChunkPaths = <<r.paths[Len(r.paths)]>>]
                             ELSE c1,
                      fs |-> [f1 EXCEPT !.chunks = r.chunks],
                      err |-> r.err ]

\* createChunks: the temporary directory, then the original file split into
\* chunk files; ChunkPaths is set only when everything succeeded.
createChunks(c, fsys, fault) ==
  IF fault.kind = "mkdir"
  THEN [cf |-> c, fs |-> fsys, err |-> "mkdir"]
  ELSE LET c1 == [c EXCEPT !.TempDir = TempDirName, !.IsChunked = TRUE]
           f1 == [fsys EXCEPT !.tempDir = TRUE, !.everTempDir = TRUE]
       IN  IF fault.kind = "open" \/ ~fsys.origIntact
           THEN [cf |-> c1, fs |-> f1, err |-> "open"]
           ELSE LET r == chunkLoop(c1, fsys.orig, 1, <<>>, <<>>, 0, fault)
                IN  [ cf |-> IF r.err = "nil" THEN [c1 EXCEPT !.ChunkPaths = r.paths] ELSE c1,
                      fs |-> [f1 EXCEPT !.chunks = r.chunks],
                      err |-> r.err ]

\* The ChunkedFile of a file left as it is: its only chunk is the file.
Unchunked(filePath) ==
  [ nil |-> FALSE, OriginalPath |-> filePath, ChunkPaths |-> <<filePath>>, TempDir |-> "",
    ChunkSize |-> FileChunkSize, IsChunked |-> FALSE ]

\* NewChunkedFile that chunks every file, whatever its size.
NewChunkedFile_NoThreshold(filePath, fsys, fault) ==
  IF DisableFileChunking
  THEN [cf |-> Unchunked(filePath), fs |-> fsys, err |-> "nil"]
  ELSE IF fault.kind = "stat" \/ ~fsys.origIntact
  THEN [cf |-> NilChunkedFile, fs |-> fsys, err |-> "stat"]
  ELSE LET r == createChunks([Unchunked(filePath) EXCEPT !.ChunkPaths = <<>>], fsys, fault)
       IN  IF r.err # "nil"
           THEN [cf |-> NilChunkedFile, fs |-> r.fs, err |-> r.err]
           ELSE r

\* NewChunkedFile: the file as it is when chunking is disabled or the file is
\* below the threshold, else its chunks; nil and an error when that fails.
NewChunkedFile(filePath, fsys, fault) ==
  IF DisableFileChunking
  THEN [cf |-> Unchunked(filePath), fs |-> fsys, err |-> "nil"]
  ELSE IF fault.kind = "stat" \/ ~fsys.origIntact
  THEN [cf |-> NilChunkedFile, fs |-> fsys, err |-> "stat"]
  ELSE IF FileSize(fsys.orig) < LargeFileThreshold
  THEN [cf |-> Unchunked(filePath), fs |-> fsys, err |-> "nil"]
  ELSE LET r == createChunks([Unchunked(filePath) EXCEPT !.ChunkPaths = <<>>], fsys, fault)
       IN  IF r.err # "nil"
           THEN [cf |-> NilChunkedFile, fs |-> r.fs, err |-> r.err]
           ELSE r

\* Cleanup that also clears an unchunked file's paths.
Cleanup_NoGuard(c, fsys, removeFails, keep) ==
  IF removeFails
  THEN [cf |-> c, fs |-> [fsys EXCEPT !.chunks = SubSeq(@, 1, keep)], err |-> "remove"]
  ELSE [ cf |-> [c EXCEPT !.TempDir = "", !.ChunkPaths = <<>>],
         fs |-> RemoveAll(fsys, c.TempDir), err |-> "nil" ]

\* Cleanup that clears the fields also when the removal failed.
Cleanup_ClearsOnFailure(c, fsys, removeFails, keep) ==
  IF ~c.IsChunked \/ c.TempDir = ""
  THEN [cf |-> c, fs |-> fsys, err |-> "nil"]
  ELSE IF removeFails
  THEN [ cf |-> [c EXCEPT !.TempDir = "", !.ChunkPaths = <<>>],
         fs |-> [fsys EXCEPT !.chunks = SubSeq(@, 1, keep)], err |-> "remove" ]
  ELSE [ cf |-> [c EXCEPT !.TempDir = "", !.ChunkPaths = <<>>],
         fs |-> RemoveAll(fsys, c.TempDir), err |-> "nil" ]

\* Cleanup that clears the fields and leaves the directory on disk.
Cleanup_KeepsDirectory(c, fsys, removeFails, keep) ==
  IF ~c.IsChunked \/ c.TempDir = ""
  THEN [cf |-> c, fs |-> fsys, err |-> "nil"]
  ELSE IF removeFails
  THEN [cf |-> c, fs |-> [fsys EXCEPT !.chunks = SubSeq(@, 1, keep)], err |-> "remove"]
  ELSE [cf |-> [c EXCEPT !.TempDir = "", !.ChunkPaths = <<>>], fs |-> fsys, err |-> "nil"]

\* Cleanup: removes the temporary directory of a file that was chunked and
\* clears TempDir and ChunkPaths.  A removal that fails leaves the fields
\* alone; on disk it has removed the chunk files after the first `keep`.
Cleanup(c, fsys, removeFails, keep) ==
  IF ~c.IsChunked \/ c.TempDir = ""
  THEN [cf |-> c, fs |-> fsys, err |-> "nil"]
  ELSE IF removeFails
  THEN [cf |-> c, fs |-> [fsys EXCEPT !.chunks = SubSeq(@, 1, keep)], err |-> "remove"]
  ELSE [ cf |-> [c EXCEPT !.TempDir = "", !.ChunkPaths = <<>>],
         fs |-> RemoveAll(fsys, c.TempDir), err |-> "nil" ]

\* GetChunkPaths
GetChunkPaths(c) == c.ChunkPaths

\* The loop of CountLinesInChunkedFile and of ReadLinesFromChunkedFile over
\* the chunk paths from number k on: every chunk is opened and scanned to
\* its end; seen are the lines scanned so far.  openFails is the number of the
\* chunk whose open fails (0: none); a chunk that is not on disk fails too.
RECURSIVE scanChunks(_, _, _, _, _)
scanChunks(paths, k, seen, fsys, openFails) ==
  IF k > Len(paths)
  THEN [lines |-> seen, err |-> "nil"]
  ELSE LET f == FileAt(fsys, paths[k])
       IN  IF ~f.exists \/ openFails = k
           THEN [lines |-> seen, err |-> "open"]
           ELSE LET s == Scanned(f.lines)
                IN  IF s.err
                    THEN [lines |-> seen \o s.lines, err |-> "read"]
                    ELSE scanChunks(paths, k + 1, seen \o s.lines, fsys, openFails)

\* CountLinesInChunkedFile: the lines of all chunks, 0 and an error when a
\* chunk cannot be opened or read.
CountLinesInChunkedFile(c, fsys, openFails) ==
  LET r == scanChunks(GetChunkPaths(c), 1, <<>>, fsys, openFails)
  IN  IF r.err # "nil"
      THEN [count |-> 0, err |-> r.err]
      ELSE [count |-> Len(r.lines), err |-> "nil"]

\* ReadLinesFromChunkedFile: the callback gets every line in order until it
\* returns an error, which it does at line number cbFails (0: never).
ReadLinesFromChunkedFile(c, fsys, openFails, cbFails) ==
  LET r == scanChunks(GetChunkPaths(c), 1, <<>>, fsys, openFails)
  IN  IF cbFails \in 1..Len(r.lines)
      THEN [lines |-> SubSeq(r.lines, 1, cbFails), err |-> "callback"]
      ELSE r

-----------------------------------------------------------------------------
(* ChunkIterator (file_chunker.go) *)

\* A ChunkIterator's fields, and what its caller has seen of it: the chunks
\* NextChunk handed out (by index), and whether NextChunk has returned false.
NilChunkIterator ==
  [ nil |-> TRUE, chunks |-> <<>>, currentIndex |-> -1, currentFile |-> "nil",
    cleanup |-> FALSE, handed |-> <<>>, exhausted |-> FALSE ]

\* NewChunkIterator: the chunk paths as they are now, and the file's Cleanup.
NewChunkIterator(c) ==
  [ nil |-> FALSE, chunks |-> GetChunkPaths(c), currentIndex |-> -1, currentFile |-> "nil",
    cleanup |-> TRUE, handed |-> <<>>, exhausted |-> FALSE ]

\* "if ci.currentFile != nil": the current chunk file is closed.
CloseCurrent(i, fsys) ==
  IF i.currentFile # "nil"
  THEN [it |-> [i EXCEPT !.currentFile = "nil"], fs |-> [fsys EXCEPT !.handles = @ - 1]]
  ELSE [it |-> i, fs |-> fsys]

\* NextChunk: closes the current chunk, moves on and opens the next one.
NextChunk(i, fsys, openFails) ==
  LET c == CloseCurrent(i, fsys)
      i1 == [c.it EXCEPT !.currentIndex = @ + 1]
  IN  IF i1.currentIndex >= Len(i1.chunks)
      THEN [it |-> i1, fs |-> c.fs, ok |-> FALSE, lines |-> <<>>]
      ELSE LET f == FileAt(c.fs, i1.chunks[i1.currentIndex + 1])
           IN  IF ~f.exists \/ openFails
               THEN [it |-> i1, fs |-> c.fs, ok |-> FALSE, lines |-> <<>>]
               ELSE [ it |-> [i1 EXCEPT !.currentFile = "open"],
                      fs |-> [c.fs EXCEPT !.handles = @ + 1],
                      ok |-> TRUE, lines |-> f.lines ]

\* ChunkIterator.Close: closes the current chunk and runs the cleanup.
IterClose(i, c, fsys, removeFails, keep) ==
  LET x == CloseCurrent(i, fsys)
  IN  IF x.it.cleanup
      THEN LET r == Cleanup(c, x.fs, removeFails, keep)
           IN  [it |-> x.it, cf |-> r.cf, fs |-> r.fs, err |-> r.err, invoked |-> TRUE]
      ELSE [it |-> x.it, cf |-> c, fs |-> x.fs, err |-> "nil", invoked |-> FALSE]

-----------------------------------------------------------------------------
(* The steps of a caller of the chunked file *)

\* The result of the last call: its name, what the environment made fail,
\* and what it returned.
NoResult ==
  [ op |-> "none", err |-> "nil", ok |-> FALSE, count |-> 0, lines |-> <<>>,
    openFails |-> 0, cbFails |-> 0, invoked |-> FALSE ]

Result(op, err) == [NoResult EXCEPT !.op = op, !.err = err]

\* The original files handed to NewChunkedFile.
ChunkSources == SeqsUpTo(ChunkLines, MaxFileLines)

\* A failed removal leaves the first `keep` chunk files; nothing can fail
\* where there is nothing to remove.
RemovalFails == IF fs.tempDir THEN {<<FALSE, 0>>} \cup {<<TRUE, k>> : k \in 0..Len(fs.chunks)}
                ELSE {<<FALSE, 0>>}

CallNewChunkedFile ==
  /\ cf.nil /\ cres.op = "none"
  /\ \E fault \in Faults :
       LET r == NewChunkedFile(OriginalFilePath, fs, fault)
       IN  /\ cf' = r.cf
           /\ fs' = r.fs
           /\ cres' = Result("NewChunkedFile", r.err)
  /\ UNCHANGED <<iterVars, DisableFileChunking, first, it, concVars>>

CallCleanup ==
  /\ ~cf.nil
  /\ \E rm \in RemovalFails :
       LET r == Cleanup(cf, fs, rm[1], rm[2])
       IN  /\ cf' = r.cf
           /\ fs' = r.fs
           /\ cres' = Result("Cleanup", r.err)
  /\ UNCHANGED <<iterVars, DisableFileChunking, first, it, concVars>>

CallCountLines ==
  /\ ~cf.nil
  /\ \E openFails \in {0, 1} :
       LET r == CountLinesInChunkedFile(cf, fs, openFails)
       IN  cres' = [Result("CountLines", r.err) EXCEPT !.count = r.count,
                                                      !.openFails = openFails]
  /\ UNCHANGED <<iterVars, DisableFileChunking, first, cf, fs, it, concVars>>

CallReadLines ==
  /\ ~cf.nil
  /\ \E openFails \in {0, 1}, cbFails \in {0, 1} :
       LET r == ReadLinesFromChunkedFile(cf, fs, openFails, cbFails)
       IN  cres' = [Result("ReadLines", r.err) EXCEPT !.lines = r.lines,
                                                     !.openFails = openFails,
                                                     !.cbFails = cbFails]
  /\ UNCHANGED <<iterVars, DisableFileChunking, first, cf, fs, it, concVars>>

CallNewChunkIterator ==
  /\ ~cf.nil /\ it.nil
  /\ it' = NewChunkIterator(cf)
  /\ cres' = Result("NewChunkIterator", "nil")
  /\ UNCHANGED <<iterVars, DisableFileChunking, first, cf, fs, concVars>>

\* The caller stops calling NextChunk one call after the first false.
CallNextChunk ==
  /\ ~it.nil /\ it.currentIndex <= Len(it.chunks)
  /\ \E openFails \in BOOLEAN :
       LET r == NextChunk(it, fs, openFails)
       IN  /\ it' = [r.it EXCEPT
                       !.handed = IF r.ok THEN Append(@, r.it.currentIndex) ELSE @,
                       !.exhausted = @ \/ ~r.ok]
           /\ fs' = r.fs
           /\ cres' = [Result("NextChunk", "nil") EXCEPT !.ok = r.ok, !.lines = r.lines,
                          !.openFails = IF openFails THEN 1 ELSE 0]
  /\ UNCHANGED <<iterVars, DisableFileChunking, first, cf, concVars>>

CallIterClose ==
  /\ ~it.nil
  /\ \E rm \in RemovalFails :
       LET r == IterClose(it, cf, fs, rm[1], rm[2])
       IN  /\ it' = r.it
           /\ cf' = r.cf
           /\ fs' = r.fs
           /\ cres' = [Result("IterClose", r.err) EXCEPT !.invoked = r.invoked]
  /\ UNCHANGED <<iterVars, DisableFileChunking, first, concVars>>

\* A file, the chunking flag either way, and no ChunkedFile yet.
ChunkInit ==
  /\ cfg = Config([spec |-> LiteralSpec(<<"a">>), dflt |-> <<>>],
                  [spec |-> LiteralSpec(<<"p">>), dflt |-> <<>>, empty |-> FALSE],
                  EmptySpec, FALSE)
  /\ ci = NewCredentialIterator
  /\ sys = InitSys
  /\ out = <<>>
  /\ lastOp = "none"
  /\ ret = NoRet
  /\ first = NoFirst
  /\ DisableFileChunking \in BOOLEAN
  /\ cf = NilChunkedFile
  /\ fs \in {NewFiles(ls) : ls \in ChunkSources}
  /\ it = NilChunkIterator
  /\ cres = NoResult
  /\ ConcIdle

ChunkNext ==
  \/ CallNewChunkedFile
  \/ CallCleanup
  \/ CallCountLines
  \/ CallReadLines
  \/ CallNewChunkIterator
  \/ CallNextChunk
  \/ CallIterClose

ChunkSpec == ChunkInit /\ [][ChunkNext]_vars

-----------------------------------------------------------------------------
(* One chunked file among goroutines: the goroutine that constructs it, a
   counting pass (CountLinesInChunkedFile) and a consuming pass that takes the
   chunk paths and cleans up, statement by statement *)

Threads == {"creator", "counter", "consumer"}

\* The fields of the ChunkedFile that the statement at a position reads or
\* writes.
Access(p) ==
  CASE p = "single" -> {"ChunkPaths"}
    [] p = "cc_dir" -> {"TempDir", "IsChunked"}
    [] p = "cc_split" -> {"TempDir", "ChunkPaths"}
    [] p = "gp_read" -> {"ChunkPaths"}
    [] p = "cl_check" -> {"IsChunked", "TempDir"}
    [] p = "cl_remove" -> {"TempDir"}
    [] p = "cl_clear" -> {"TempDir", "ChunkPaths"}
    [] OTHER -> {}

\* The constructor has returned the ChunkedFile: other goroutines can have it.
Shared == conc.pc["creator"] = "done"

\* A statement that leaves the mutex as it is.
lock_NotTaken(cn, t) == cn

\* cf.mutex.Lock(), once the mutex is free.
lock(cn, t) == [cn EXCEPT !.mutex = t]

\* The deferred cf.mutex.Unlock().
unlock(cn) == [cn EXCEPT !.mutex = "free"]

\* NewChunkedFile up to its decision: the struct, the flag, the stat and the
\* size test.
CreatorNew ==
  /\ conc.pc["creator"] = "new"
  /\ cf' = [Unchunked(OriginalFilePath) EXCEPT !.ChunkPaths = <<>>]
  /\ conc' = [conc EXCEPT !.pc["creator"] =
                 IF DisableFileChunking \/ FileSize(fs.orig) < LargeFileThreshold
                 THEN "single" ELSE "cc_lock"]
  /\ UNCHANGED <<iterVars, DisableFileChunking, first, fs, it, cres, eager>>

\* cf.ChunkPaths = []string{filePath}; return cf, nil.
CreatorSingle ==
  /\ conc.pc["creator"] = "single"
  /\ cf' = NewChunkedFile(OriginalFilePath, fs, NoFault).cf
  /\ conc' = [conc EXCEPT !.pc["creator"] = "done"]
  /\ UNCHANGED <<iterVars, DisableFileChunking, first, fs, it, cres, eager>>

\* createChunks: cf.mutex.Lock().
CreatorLock ==
  /\ conc.pc["creator"] = "cc_lock" /\ conc.mutex = "free"
  /\ conc' = [lock(conc, "creator") EXCEPT !.pc["creator"] = "cc_dir"]
  /\ UNCHANGED <<iterVars, DisableFileChunking, first, chunkVars, eager>>

\* createChunks: the temporary directory, TempDir and IsChunked.
CreatorMkdir ==
  /\ conc.pc["creator"] = "cc_dir"
  /\ LET r == createChunks(cf, fs, NoFault)
     IN  /\ cf' = [cf EXCEPT !.TempDir = r.cf.TempDir, !.IsChunked = r.cf.IsChunked]
         /\ fs' = [fs EXCEPT !.tempDir = r.fs.tempDir, !.everTempDir = r.fs.everTempDir]
  /\ conc' = [conc EXCEPT !.pc["creator"] = "cc_split"]
  /\ UNCHANGED <<iterVars, DisableFileChunking, first, it, cres, eager>>

\* createChunks: the chunk files and ChunkPaths, the unlock and the return of
\* NewChunkedFile, which is nil when the split failed.
CreatorSplit ==
  /\ conc.pc["creator"] = "cc_split"
  /\ LET r == createChunks(cf, fs, NoFault)
     IN  /\ cf' = IF r.err = "nil" THEN r.cf ELSE NilChunkedFile
         /\ fs' = r.fs
         /\ conc' = [unlock(conc) EXCEPT !.pc["creator"] =
                        IF r.err = "nil" THEN "done" ELSE "failed"]
  /\ UNCHANGED <<iterVars, DisableFileChunking, first, it, cres, eager>>

\* GetChunkPaths: cf.mutex.Lock(), in the counting pass and in the
\* NewChunkIterator of the consuming pass.
GetPathsLock ==
  /\ Shared /\ conc.mutex = "free"
  /\ \E t \in {"counter", "consumer"} :
       /\ conc.pc[t] = "gp_lock"
       /\ conc' = [lock(conc, t) EXCEPT !.pc[t] = "gp_read"]
  /\ UNCHANGED <<iterVars, DisableFileChunking, first, chunkVars, eager>>

\* GetChunkPaths: return cf.ChunkPaths, and the deferred unlock.
GetPathsRead ==
  /\ \/ /\ conc.pc["counter"] = "gp_read"
        /\ conc' = [unlock(conc) EXCEPT !.pc["counter"] = "open",
                                        !.paths = GetChunkPaths(cf)]
     \/ /\ conc.pc["consumer"] = "gp_read"
        /\ conc' = [unlock(conc) EXCEPT !.pc["consumer"] = "cl_lock"]
  /\ UNCHANGED <<iterVars, DisableFileChunking, first, chunkVars, eager>>

\* The counting pass going past a chunk it cannot open.
countOpen_SkipsMissing(cn, fsys, openFails) ==
  IF cn.k > Len(cn.paths)
  THEN [cn EXCEPT !.pc["counter"] = "done", !.result = [count |-> cn.count, err |-> "nil"]]
  ELSE LET f == FileAt(fsys, cn.paths[cn.k])
       IN  IF ~f.exists \/ openFails
           THEN [cn EXCEPT !.k = @ + 1]
           ELSE [cn EXCEPT !.pc["counter"] = "scan",
                           !.handle = [open |-> TRUE, lines |-> f.lines]]

\* CountLinesInChunkedFile at the head of its loop: return count, nil after
\* the last path; else os.Open the chunk, return 0 and the error on failure.
countOpen(cn, fsys, openFails) ==
  IF cn.k > Len(cn.paths)
  THEN [cn EXCEPT !.pc["counter"] = "done", !.result = [count |-> cn.count, err |-> "nil"]]
  ELSE LET f == FileAt(fsys, cn.paths[cn.k])
       IN  IF ~f.exists \/ openFails
           THEN [cn EXCEPT !.pc["counter"] = "done",
                           !.result = [count |-> 0, err |-> "open"]]
           ELSE [cn EXCEPT !.pc["counter"] = "scan",
                           !.handle = [open |-> TRUE, lines |-> f.lines]]

\* CountLinesInChunkedFile: the scan of the open chunk, which reads the file
\* as it was opened even if it has been removed since; the close; return 0
\* and the error when the scanner stopped on one.
countScan(cn) ==
  LET s == Scanned(cn.handle.lines)
      c1 == [cn EXCEPT !.count = @ + Len(s.lines),
                       !.handle = [open |-> FALSE, lines |-> <<>>]]
  IN  IF s.err
      THEN [c1 EXCEPT !.pc["counter"] = "done", !.result = [count |-> 0, err |-> "read"]]
      ELSE [c1 EXCEPT !.pc["counter"] = "open", !.k = @ + 1]

CountOpen ==
  /\ conc.pc["counter"] = "open"
  /\ \E openFails \in BOOLEAN : conc' = countOpen(conc, fs, openFails)
  /\ UNCHANGED <<iterVars, DisableFileChunking, first, chunkVars, eager>>

CountScan ==
  /\ conc.pc["counter"] = "scan"
  /\ conc' = countScan(conc)
  /\ UNCHANGED <<iterVars, DisableFileChunking, first, chunkVars, eager>>

\* Cleanup: cf.mutex.Lock().
CleanupLock ==
  /\ conc.pc["consumer"] = "cl_lock" /\ conc.mutex = "free"
  /\ conc' = [lock(conc, "consumer") EXCEPT !.pc["consumer"] = "cl_check"]
  /\ UNCHANGED <<iterVars, DisableFileChunking, first, chunkVars, eager>>

\* Cleanup: if !cf.IsChunked || cf.TempDir == "" { return nil }.
CleanupCheck ==
  /\ conc.pc["consumer"] = "cl_check"
  /\ conc' = IF ~cf.IsChunked \/ cf.TempDir = ""
             THEN [unlock(conc) EXCEPT !.pc["consumer"] = "done"]
             ELSE [conc EXCEPT !.pc["consumer"] = "cl_remove"]
  /\ UNCHANGED <<iterVars, DisableFileChunking, first, chunkVars, eager>>

\* Cleanup: os.RemoveAll(cf.TempDir), one file at a time (here from the last
\* chunk to the first) and then the directory; when a removal fails Cleanup
\* returns the error with what is left on disk.
CleanupRemove ==
  /\ conc.pc["consumer"] = "cl_remove"
  /\ \/ /\ fs' = fs
        /\ conc' = [unlock(conc) EXCEPT !.pc["consumer"] = "done", !.cleanupErr = "remove"]
     \/ /\ fs.chunks # <<>>
        /\ fs' = [fs EXCEPT !.chunks = SubSeq(@, 1, Len(@) - 1)]
        /\ conc' = conc
     \/ /\ fs.chunks = <<>>
        /\ fs' = RemoveAll(fs, cf.TempDir)
        /\ conc' = [conc EXCEPT !.pc["consumer"] = "cl_clear"]
  /\ UNCHANGED <<iterVars, DisableFileChunking, first, cf, it, cres, eager>>

\* Cleanup: cf.TempDir = ""; cf.ChunkPaths = nil; return nil.
CleanupClear ==
  /\ conc.pc["consumer"] = "cl_clear"
  /\ cf' = Cleanup(cf, fs, FALSE, 0).cf
  /\ conc' = [unlock(conc) EXCEPT !.pc["consumer"] = "done"]
  /\ UNCHANGED <<iterVars, DisableFileChunking, first, fs, it, cres, eager>>

SharedInit ==
  /\ cfg = Config([spec |-> LiteralSpec(<<"a">>), dflt |-> <<>>],
                  [spec |-> LiteralSpec(<<"p">>), dflt |-> <<>>, empty |-> FALSE],
                  EmptySpec, FALSE)
  /\ ci = NewCredentialIterator
  /\ sys = InitSys
  /\ out = <<>>
  /\ lastOp = "none"
  /\ ret = NoRet
  /\ first = NoFirst
  /\ DisableFileChunking \in BOOLEAN
  /\ cf = NilChunkedFile
  /\ fs \in {NewFiles(ls) : ls \in ChunkSources}
  /\ it = NilChunkIterator
  /\ cres = NoResult
  /\ ConcIdle

SharedNext ==
  \/ CreatorNew \/ CreatorSingle \/ CreatorLock \/ CreatorMkdir \/ CreatorSplit
  \/ GetPathsLock \/ GetPathsRead
  \/ CountOpen \/ CountScan
  \/ CleanupLock \/ CleanupCheck \/ CleanupRemove \/ CleanupClear

SharedSpec == SharedInit /\ [][SharedNext]_vars

-----------------------------------------------------------------------------
(* What the claims speak of *)

Standard == ~isComboMode /\ ~isPasswordOnly

PasswordOnly == ~isComboMode /\ isPasswordOnly

ComboFile == isComboMode /\ IsFile(cfg.combo)

ComboLiteral == isComboMode /\ ~IsFile(cfg.combo)

\* The entries of the user source and of the password source, in order.
UserSource ==
  IF IsFile(cfg.user) THEN cfg.user.lines
  ELSE IF cfg.user.kind = "literal" THEN <<cfg.user.val>>
  ELSE cfg.defaultUsers

PasswordSource ==
  IF IsFile(cfg.password) THEN cfg.password.lines
  ELSE IF cfg.password.kind = "literal" THEN <<cfg.password.val>>
  ELSE IF cfg.UseEmptyPassword THEN <<EmptyStr>>
  ELSE cfg.defaultPasswords

\* The cross product of us and ps in user-major order.
CrossProduct(us, ps) ==
  [k \in 1..(Len(us) * Len(ps)) |->
     <<us[((k - 1) \div Len(ps)) + 1], ps[((k - 1) % Len(ps)) + 1]>>]

\* A run in which no open, read or reset failed and Close() was not called:
\* the caller pulled, and nothing else happened.
CleanRun ==
  ~sys.readFailed /\ ~sys.openFailed /\ ~sys.resetFailed /\ ~sys.closeCalled

\* s is u, a colon, p, and it is the first colon of s.
IsSplit(s, u, p) == s = u \o <<":">> \o p /\ ~HasColon(u)

\* The users consumed so far.
UsersTaken == IF ci.userScanner.set THEN ci.userScanner.pos ELSE ci.userIndex

IsPrefix(a, b) == Len(a) <= Len(b) /\ \A k \in 1..Len(a) : a[k] = b[k]

-----------------------------------------------------------------------------
(* The claims *)

\* C1: in standard mode a full iteration (Next() until ok=false, with no I/O
\* failure and no Close()) has emitted exactly the cross product of the user
\* source and the password source, in user-major order, whatever the entries.
C1_StandardCrossProduct ==
  (Standard /\ ci.done /\ CleanRun) => out = CrossProduct(UserSource, PasswordSource)

\* C2: in standard mode with a password file, whenever a pull moves on to
\* another user the pair it emits carries the first line of the password
\* file: every user's passwords start back at the first line.
C2_EveryUserStartsAtFirstLine ==
  [][(/\ Standard /\ IsFile(cfg.password)
      /\ CleanRun'
      /\ lastOp' = "Next" /\ ret'.ok
      /\ UsersTaken' > UsersTaken)
     => ret'.password = cfg.password.lines[1]]_vars

\* C3: after a full iteration with no I/O failure, the number of pairs emitted
\* is what CountCredentials returns for the same arguments.
C3_CountEqualsEmitted ==
  (ci.done /\ CleanRun) => Len(out) = CountCredentials({}, {})

\* The lines of the combo file that contain a colon, in file order.
ValidLines == SelectSeq(cfg.combo.lines, HasColon)

\* C4: over a combo file the pairs emitted are, at any moment, the first
\* lines with a colon, in file order, each split at its first colon (lines
\* without a colon are skipped and end nothing); the iterator is done only
\* when the stream has ended (end of file, or a failed read or open); and
\* after a full iteration with no I/O failure and no Close() the stream is at
\* its end and every line with a colon has been emitted.
C4_ComboFilePairs ==
  ComboFile =>
    /\ Len(out) <= Len(ValidLines)
    /\ \A k \in 1..Len(out) : IsSplit(ValidLines[k], out[k][1], out[k][2])
    /\ ci.done => (ci.comboScanner.eof \/ ci.comboScanner.err \/ sys.openFailed)
    /\ (ci.done /\ CleanRun) => (ci.comboScanner.eof /\ Len(out) = Len(ValidLines))
    /\ (lastOp = "Next" /\ ~ret.ok) => ci.done

C4_Witness ==
  /\ ComboFile /\ CleanRun /\ ci.done
  /\ cfg.combo.lines = <<<<"a">>, <<"a", ":", "p", ":", "q">>>>
  /\ out = <<<< <<"a">>, <<"p", ":", "q">> >>>>

\* C5: in password-only mode, whatever the user spec is, every emitted user
\* is empty and the passwords emitted are, at any moment, the first entries
\* of the password source in order; a pull that returns exhausted leaves the
\* iterator done; and after a full iteration with no I/O failure and no
\* Close() exactly |passwords| pairs have been emitted.
C5_PasswordOnly ==
  PasswordOnly =>
    /\ \A k \in 1..Len(out) : out[k][1] = EmptyStr
    /\ IsPrefix([k \in 1..Len(out) |-> out[k][2]], PasswordSource)
    /\ (lastOp = "Next" /\ ~ret.ok) => ci.done
    /\ (ci.done /\ CleanRun) => Len(out) = Len(PasswordSource)

C5_Witness ==
  /\ PasswordOnly /\ CleanRun /\ ci.done
  /\ cfg.user.kind = "literal" /\ IsFile(cfg.password)
  /\ out = << <<EmptyStr, <<"p">> >>, <<EmptyStr, <<"q">> >> >>

\* C6 (states): a literal combo value with a colon is emitted split at its
\* first colon by the first pull and by no other; one without a colon is a
\* configuration error at the first pull, which returns exhausted, and no
\* pair is ever emitted.
C6_LiteralState ==
  ComboLiteral =>
    IF HasColon(cfg.combo.val)
    THEN /\ ~ci.initialized => out = <<>>
         /\ ci.initialized =>
              (Len(out) = 1 /\ IsSplit(cfg.combo.val, out[1][1], out[1][2]))
         /\ ~sys.configError
    ELSE /\ out = <<>>
         /\ ci.initialized => (ci.done /\ sys.configError)
         /\ lastOp = "Next" => ~ret.ok

\* C6 (steps): the first pull of a literal with a colon returns ok, and every
\* pull after the first returns exhausted and leaves the iterator done.
C6_LiteralStep ==
  (ComboLiteral /\ lastOp' = "Next") =>
    IF ci.initialized
    THEN ~ret'.ok /\ ci'.done
    ELSE ret'.ok <=> HasColon(cfg.combo.val)

\* C6: the literal combo value, states and steps.
C6_ComboLiteral == []C6_LiteralState /\ [][C6_LiteralStep]_vars

C6_Witness ==
  /\ ComboLiteral /\ ci.done /\ lastOp = "Next"
  /\ cfg.combo.val = <<"a", ":", "p", ":", "q">>
  /\ out = <<<< <<"a">>, <<"p", ":", "q">> >>>>

\* C7: a read failure is terminal: once a read of a source file has failed
\* the iterator is done, and no pull that met or follows the failure returns
\* a pair.
C7_ReadFailureTerminal ==
  sys.readFailed => (ci.done /\ (lastOp = "Next" => ~ret.ok))

\* C8 (states): a pull that returned ok=false has left the iterator done.
C8_FalseMeansDone == (lastOp = "Next" /\ ~ret.ok) => ci.done

\* C8 (steps): from a done iterator every pull returns ("", "", false) and
\* emits nothing, done and initialized stay set and no file is opened.
C8_DoneStep ==
  /\ ci.initialized => ci'.initialized
  /\ ci.done =>
       /\ ci'.done
       /\ out' = out
       /\ lastOp' = "Next" => ret' = NoRet
       /\ \A s \in Sources : sys'.open[s] <= sys.open[s]

\* C8: the done state is absorbing.
C8_DoneAbsorbing == []C8_FalseMeansDone /\ [][C8_DoneStep]_vars

C8_Witness ==
  /\ ci.done /\ lastOp = "Next" /\ ret = NoRet
  /\ sys.resetFailed /\ ci.passwordFile = "nil" /\ Len(out) > 0

\* C9 (states): after Close() no handle of the iterator is open and no field
\* holds one.
C9_ClosedAfterClose ==
  lastOp = "Close" =>
    /\ \A s \in Sources : sys.open[s] = 0
    /\ ci.userFile = "nil" /\ ci.passwordFile = "nil" /\ ci.comboFile = "nil"

\* C9 (steps): a Close() that follows a Close() returns nil.
C9_SecondCloseNil == (lastOp = "Close" /\ lastOp' = "Close") => ret'.err = "nil"

\* C9: Close() releases every handle, and a second Close() returns nil.
C9_CloseReleasesAll == []C9_ClosedAfterClose /\ [][C9_SecondCloseNil]_vars

C9_Witness ==
  /\ lastOp = "Close" /\ ret.err = "password" /\ Len(out) > 0
  /\ IsFile(cfg.user) /\ ~ci.done

\* C10: no file handle is ever closed twice.
C10_NoDoubleClose == ~sys.doubleClose

\* The first of the sources in F in the order user, password, combo.
FirstOf(F) ==
  IF "user" \in F THEN "user"
  ELSE IF "password" \in F THEN "password"
  ELSE IF "combo" \in F THEN "combo"
  ELSE "nil"

C12_LazyState ==
  /\ ~ci.initialized =>
       /\ ci = NewCredentialIterator
       /\ \A s \in Sources : sys.open[s] = 0
       /\ ~sys.openFailed /\ sys.resolved = 0
  /\ ci.initialized => sys.resolved = 1
  /\ lastOp = "Next" => ci.initialized

\* C12 (steps): once the sources were resolved, successfully or not, no step
\* resolves them again and no user or combo file is opened.
C12_OnceStep ==
  ci.initialized =>
    /\ ci'.initialized /\ sys'.resolved = sys.resolved
    /\ sys'.open["user"] <= sys.open["user"]
    /\ sys'.open["combo"] <= sys.open["combo"]
    /\ (sys.openFailed /\ ~sys.resetFailed) => \A s \in Sources : sys'.open[s] = 0

\* C12: construction is lazy and resolution runs once, at the first Next().
C12_LazyConstruction == []C12_LazyState /\ [][C12_OnceStep]_vars

C12_Witness ==
  /\ ci.initialized /\ sys.resolved = 1 /\ sys.openFailed /\ ci.done
  /\ lastOp = "Close" /\ IsFile(cfg.user) /\ IsFile(cfg.password)

\* C13: at most one handle of each source is open in every reachable state,
\* also across the password reset that reopens the file.
C13_OneHandlePerSource == \A s \in Sources : sys.open[s] <= 1

C13_Witness ==
  /\ sys.reopened /\ sys.open["password"] = 1 /\ ci.passwordFile = "open"
  /\ lastOp = "Next" /\ ret.ok /\ Len(out) > 1

\* Both iterators of the chunking test ran to their end without I/O failure.
BothRunsDone ==
  first.set /\ first.clean /\ ci.done /\ CleanRun /\ ~DisableFileChunking

\* The sequence half of C14: the two runs emitted the same pairs.
C14_SameSequence == BothRunsDone => out = first.out

\* C14: two iterators over the same user and password files, the first run
\* with DisableFileChunking set and the second with it cleared, emit the same
\* sequence of pairs, and each emits |users| x |passwords| pairs.
C14_ChunkingFlagIrrelevant ==
  BothRunsDone =>
    /\ out = first.out
    /\ Len(out) = Len(cfg.user.lines) * Len(cfg.password.lines)
    /\ Len(first.out) = Len(cfg.user.lines) * Len(cfg.password.lines)

-----------------------------------------------------------------------------
(* The claims about the chunked file *)

\* The file is left as it is: chunking is disabled or the file is small.
LeftUnchunked == DisableFileChunking \/ FileSize(fs.orig) < LargeFileThreshold

\* The chunk files of the paths in ps, one after the other.
RECURSIVE Concatenated(_)
Concatenated(ps) ==
  IF ps = <<>> THEN <<>> ELSE FileAt(fs, Head(ps)).lines \o Concatenated(Tail(ps))

\* The ChunkedFile holds chunks that are all on disk.
ChunksOnDisk ==
  /\ ~cf.nil /\ cf.IsChunked /\ fs.tempDir
  /\ cf.ChunkPaths # <<>> /\ Len(fs.chunks) = Len(cf.ChunkPaths)

\* The temporary directory of a file that was chunked has been deleted.
CleanedUp == ~cf.nil /\ cf.IsChunked /\ ~fs.tempDir

\* C15: when chunking is disabled or the file is below the threshold,
\* NewChunkedFile fails only if the stat does (never when disabled), its
\* result has IsChunked false, ChunkPaths = [filePath] and an empty TempDir,
\* and no temporary directory was created; the file is untouched.
C15_SmallFileUntouched ==
  (LeftUnchunked /\ cres.op = "NewChunkedFile") =>
    /\ cres.err \in {"nil", "stat"}
    /\ DisableFileChunking => cres.err = "nil"
    /\ cres.err = "nil" =>
         /\ ~cf.nil /\ ~cf.IsChunked /\ cf.TempDir = ""
         /\ cf.ChunkPaths = <<OriginalFilePath>>
         /\ cf.OriginalPath = OriginalFilePath
    /\ ~fs.everTempDir /\ ~fs.tempDir /\ fs.chunks = <<>> /\ fs.origIntact

C15_Witness ==
  /\ cres.op = "NewChunkedFile" /\ cres.err = "nil" /\ ~DisableFileChunking
  /\ FileSize(fs.orig) = LargeFileThreshold - 1
  /\ cf.ChunkPaths = <<OriginalFilePath>>

\* C16: while the chunks of a chunked file are on disk, the chunk files taken
\* in ChunkPaths order hold exactly the lines of the original file in order;
\* CountLinesInChunkedFile returns the original's number of lines and
\* ReadLinesFromChunkedFile hands the callback the original's lines, when
\* no open fails and the callback returns no error.
C16_ChunkRoundTrip ==
  /\ (cres.op = "NewChunkedFile" /\ cres.err = "nil" /\ ~LeftUnchunked) => ChunksOnDisk
  /\ ChunksOnDisk =>
       /\ \A k \in 1..Len(cf.ChunkPaths) : FileAt(fs, cf.ChunkPaths[k]).exists
       /\ Concatenated(cf.ChunkPaths) = fs.orig
       /\ (cres.op = "CountLines" /\ cres.openFails = 0) =>
            (cres.err = "nil" /\ cres.count = Len(fs.orig))
       /\ (cres.op = "ReadLines" /\ cres.openFails = 0 /\ cres.cbFails = 0) =>
            (cres.err = "nil" /\ cres.lines = fs.orig)

C16_Witness ==
  /\ ChunksOnDisk /\ cres.op = "ReadLines" /\ cres.err = "nil"
  /\ fs.orig = <<<<"b">>, <<"b">>, <<"a", "a">>>>
  /\ fs.chunks = << <<<<"b">>, <<"b">>>>, <<<<"a", "a">>>> >>
  /\ cres.lines = fs.orig

\* C17: every chunk file on disk is within the budget; the chunk files of a
\* successful createChunks have at least one line each, and a chunk was only
\* closed because the first line of the next one did not fit.
C17_ChunkWithinBudget ==
  /\ \A k \in 1..Len(fs.chunks) : FileSize(fs.chunks[k]) <= FileChunkSize
  /\ ChunksOnDisk =>
       /\ cf.ChunkSize = FileChunkSize
       /\ \A k \in 1..Len(fs.chunks) : Len(fs.chunks[k]) >= 1
       /\ \A k \in 1..(Len(fs.chunks) - 1) :
            FileSize(fs.chunks[k]) + Len(fs.chunks[k + 1][1]) + 1 > cf.ChunkSize

C17_Witness ==
  /\ ChunksOnDisk /\ Len(fs.chunks) = 2
  /\ FileSize(fs.chunks[1]) = FileChunkSize /\ Len(fs.chunks[1]) = 2

\* C18 (states): a Cleanup() that returns nil on a file that was chunked has
\* deleted the temporary directory and left ChunkPaths and TempDir empty.
C18_CleanupDeletes ==
  (~cf.nil /\ cf.IsChunked /\ cres.op = "Cleanup" /\ cres.err = "nil") =>
    (~fs.tempDir /\ fs.chunks = <<>> /\ cf.ChunkPaths = <<>> /\ cf.TempDir = "")

\* C18 (steps): once the directory was deleted, every further Cleanup()
\* returns nil and changes neither the ChunkedFile nor the disk.
C18_CleanupAgain ==
  (CleanedUp /\ cres'.op = "Cleanup") => (cres'.err = "nil" /\ cf' = cf /\ fs' = fs)

\* C18: Cleanup deletes the temporary directory and is idempotent.
C18_CleanupIdempotent == []C18_CleanupDeletes /\ [][C18_CleanupAgain]_vars

C18_Witness ==
  /\ CleanedUp /\ cres.op = "Cleanup" /\ cres.err = "nil" /\ fs.everTempDir
  /\ cf.ChunkPaths = <<>> /\ cf.TempDir = ""

\* C19: after a successful Cleanup() of a ChunkedFile that had created
\* chunks, IsChunked is false, ChunkPaths is empty and TempDir is empty.
C19_UnchunkedAfterCleanup ==
  (~cf.nil /\ fs.everTempDir /\ cres.op = "Cleanup" /\ cres.err = "nil") =>
    (~cf.IsChunked /\ cf.ChunkPaths = <<>> /\ cf.TempDir = "")

\* C20: on a ChunkedFile that created no chunks, Cleanup(), called directly
\* or through ChunkIterator.Close(), returns nil, changes no field of the
\* ChunkedFile, leaves ChunkPaths = [OriginalPath] and leaves the original
\* file and the disk as they are.
C20_CleanupNoOp ==
  [][(~cf.nil /\ ~cf.IsChunked /\ cres'.op \in {"Cleanup", "IterClose"}) =>
       /\ cres'.err = "nil"
       /\ cf' = cf /\ cf'.ChunkPaths = <<cf.OriginalPath>>
       /\ fs'.orig = fs.orig /\ fs'.origIntact
       /\ fs'.tempDir = fs.tempDir /\ fs'.chunks = fs.chunks]_vars

C20_Witness ==
  /\ ~cf.nil /\ ~cf.IsChunked /\ cres.op = "IterClose" /\ cres.err = "nil"
  /\ ~DisableFileChunking /\ cf.ChunkPaths = <<OriginalFilePath>> /\ fs.origIntact
  /\ it.currentIndex = 0

\* C22: NextChunk hands out the chunks in ChunkPaths order, each once and
\* none skipped; at most one chunk file handle is open, the one of the
\* current chunk; and NextChunk returns false only when every chunk has
\* been handed out.
C22_ChunksInOrder ==
  /\ fs.handles <= 1
  /\ fs.handles = (IF it.currentFile = "open" THEN 1 ELSE 0)
  /\ \A k \in 1..Len(it.handed) : it.handed[k] = k - 1
  /\ (cres.op = "NextChunk" /\ ~cres.ok) => Len(it.handed) = Len(it.chunks)

\* C23: ChunkIterator.Close() leaves no chunk handle open, and the file's
\* Cleanup is invoked once however often Close() is called: the first
\* Close() invokes it, and a Close() that follows a Close() does not.
C23_CleanupOnce ==
  [][cres'.op = "IterClose" =>
       /\ fs'.handles = 0 /\ it'.currentFile = "nil"
       /\ cres.op # "IterClose" => cres'.invoked
       /\ cres.op = "IterClose" => ~cres'.invoked]_vars

\* A Cleanup(), direct or through ChunkIterator.Close().
IsCleanup(r) == r.op \in {"Cleanup", "IterClose"}

\* C24 (states): once the seek and the reopen of resetPasswords have both
\* failed the iterator is done, and the pull returns ("", "", false).
C24_ResetFailedState ==
  sys.resetFailed => (Standard /\ ci.done /\ (lastOp = "Next" => ~ret.ok))

\* C24 (steps): neither the pull in which the reset fails nor any pull after
\* it emits a pair.
C24_ResetFailedStep == sys'.resetFailed => out' = out

MaxPairs ==
  IF ComboFile THEN Len(ValidLines)
  ELSE IF ComboLiteral THEN 1
  ELSE IF PasswordOnly THEN Len(PasswordSource)
  ELSE Len(UserSource) * Len(PasswordSource)

\* C25 (steps): a Next() either returns ok and emits one pair, or returns
\* ok=false, emits nothing and leaves the iterator done.
C25_PullStep ==
  lastOp' = "Next" =>
    IF ret'.ok THEN Len(out') = Len(out) + 1 ELSE (out' = out /\ ci'.done)

\* C25: the pairs emitted never exceed the size of the sources, so among any
\* MaxPairs + 1 calls of Next() one returns ok=false.
C25_Terminates == [](Len(out) <= MaxPairs) /\ [][C25_PullStep]_vars

C25_Witness ==
  /\ Standard /\ ci.done /\ lastOp = "Next" /\ ~ret.ok
  /\ Len(UserSource) = 2 /\ Len(PasswordSource) = 2 /\ Len(out) = 4

\* The entry of the combo source behind the k-th pair.
ComboEntry(k) == IF ComboFile THEN ValidLines[k] ELSE cfg.combo.val

\* C26: with a combo specification the iterator is in combo mode whatever
\* the flag and the user and password specifications are: no user or
\* password file is ever opened or scanned, the pairs emitted are entries of
\* the combo source split at the first colon, and CountCredentials counts
\* the combo source alone.
C26_ComboPrecedence ==
  isComboMode =>
    /\ sys.open["user"] = 0 /\ sys.open["password"] = 0
    /\ ci.userFile = "nil" /\ ci.passwordFile = "nil"
    /\ ~ci.userScanner.set /\ ~ci.passScanner.set
    /\ Len(out) <= MaxPairs
    /\ \A k \in 1..Len(out) : IsSplit(ComboEntry(k), out[k][1], out[k][2])
    /\ CountCredentials({}, {}) = MaxPairs

C26_Witness ==
  /\ isComboMode /\ IsFile(cfg.user) /\ IsFile(cfg.password)
  /\ ci.done /\ CleanRun /\ Len(out) = 2

\* C27 (states): the only error of Cleanup() is a failed removal, and after
\* it the ChunkedFile still has its TempDir, ChunkPaths and IsChunked.
C27_FailedState ==
  (IsCleanup(cres) /\ cres.err # "nil") =>
    /\ cres.err = "remove"
    /\ cf.IsChunked /\ cf.TempDir = TempDirName /\ cf.ChunkPaths # <<>> /\ fs.tempDir

\* C27 (steps): a Cleanup() that fails changes no field of the ChunkedFile,
\* and the Cleanup() after a failed one attempts the removal again: when it
\* returns nil the directory is gone.
C27_FailedStep ==
  /\ (IsCleanup(cres') /\ cres'.err # "nil") => cf' = cf
  /\ (IsCleanup(cres) /\ cres.err = "remove" /\ IsCleanup(cres') /\ cres'.err = "nil") =>
       (fs.tempDir /\ ~fs'.tempDir /\ cf'.TempDir = "" /\ cf'.ChunkPaths = <<>>)

\* C27: a failed removal leaves the ChunkedFile unchanged for a retry.
C27_FailedCleanupRetries == []C27_FailedState /\ [][C27_FailedStep]_vars

C27_Witness ==
  /\ cres.op = "Cleanup" /\ cres.err = "remove"
  /\ cf.TempDir = TempDirName /\ Len(cf.ChunkPaths) = 2 /\ Len(fs.chunks) = 1

\* C30: once NextChunk has returned false, every later NextChunk returns
\* false and opens no file.
C30_ExhaustionAbsorbing ==
  [][(it.exhausted /\ cres'.op = "NextChunk") =>
       (~cres'.ok /\ fs'.handles = 0 /\ it'.currentFile = "nil")]_vars

\* GetUsersAndPasswords has returned its two slices.
Returned == eager.main = "returned"

\* C28 (states): a state from which no goroutine can take a step is the
\* return or the exit after a failed file read; the slices are at any moment
\* what the sources hold, in order, as far as received; the return hands
\* back the complete user list and the complete password list; and the
\* process exits only when a file could not be read.
C28_NoDeadlockState ==
  /\ (~ENABLED EagerNext) => (Returned \/ eager.exited)
  /\ IsPrefix(eager.slice["user"], UserSource)
  /\ IsPrefix(eager.slice["password"], PasswordSource)
  /\ Returned => /\ eager.slice["user"] = UserSource
                  /\ eager.slice["password"] = PasswordSource
                  /\ ~eager.exited
  /\ eager.exited => (IsFile(cfg.user) \/ IsFile(cfg.password))

\* C28: GetUsersAndPasswords never deadlocks: under every interleaving it
\* comes to its end, which is the return of both complete lists unless a
\* file read failed and ended the process.
C28_NeverDeadlocks == []C28_NoDeadlockState /\ <>(Returned \/ eager.exited)

C28_Witness ==
  /\ Returned /\ IsFile(cfg.user) /\ IsFile(cfg.password)
  /\ Len(eager.slice["user"]) = 2 /\ Len(eager.slice["password"]) = 2

\* The goroutines whose next statement reads or writes ChunkPaths, IsChunked
\* or TempDir.
Accessing == {t \in Threads : Access(conc.pc[t]) # {}}

C29_CountAllOrNothing ==
  conc.pc["counter"] = "done" =>
    /\ conc.result.err = "nil" =>
         \/ conc.result.count = Len(fs.orig)
         \/ conc.result.count = 0 /\ conc.paths = <<>> /\ conc.pc["consumer"] = "done"
    /\ conc.result.err # "nil" => conc.result.count = 0

\* The counting pass had counted the first chunk when Cleanup removed the
\* next one: it returns 0 and the error.
C29_Witness ==
  /\ conc.pc["counter"] = "done" /\ conc.result.err = "open" /\ conc.count > 0
  /\ conc.pc["consumer"] \in {"cl_remove", "cl_clear"}
  /\ ~FileAt(fs, conc.paths[conc.k]).exists

\* C31: a NewChunkedFile that returned an error has left no temporary
\* directory and no chunk file on disk, and every temporary directory that
\* exists belongs to a ChunkedFile that was returned to a caller.
C31_NoOrphanTempDir ==
  /\ (cres.op = "NewChunkedFile" /\ cres.err # "nil") =>
       (~fs.tempDir /\ fs.chunks = <<>>)
  /\ fs.tempDir => ~cf.nil

=============================================================================
